---- MODULE Spec2Model ----
(***************************************************************************)
(* Model of the pdf-tracker repository: three Flask applications that      *)
(* record the opening of a tracked document and notify its sender.         *)
(*                                                                         *)
(*   debug_app.py  PDFTracker            detached thread, GPS support      *)
(*   app.py        ProductionPDFTracker  synchronous record_access         *)
(*   debud_app.py  DebugPDFTracker       synchronous, verbose statuses     *)
(*                                                                         *)
(* Values.  Python strings are TLA+ strings; Python None is the token      *)
(* None; a JSON key that is missing is the token Absent and a JSON null is *)
(* the token Null.  Numbers that are only copied or tested for truth       *)
(* (coordinates) are numerals: "0" is zero, which Python treats as false.  *)
(* Accuracies, on which the code computes, are integers (metres).          *)
(* An IP address or host name is the sequence of its dot-separated labels: *)
(* "192.168.1.5" is <<"192", "168", "1", "5">>.                            *)
(***************************************************************************)
EXTENDS Integers, Sequences, FiniteSets, TLC

VARIABLES
    app,      \* which application of the repository is running
    env,      \* the process environment (configuration), read-only
    nreq,     \* number of tracking invocations received so far
    inv,      \* inv[i]: what the handler extracted from invocation i
    task,     \* task[i]: position and locals of the chain of invocation i
    resp,     \* resp[i]: the response returned for invocation i
    rows,     \* the pdf_access table, in rowid order
    log,      \* log[i]: the operations done and the outbound calls made for
              \* invocation i, in order, "RESPOND" being its response
    probe     \* a single call of a function of the program, and its result

vars == <<app, env, nreq, inv, task, resp, rows, log, probe>>

None == "<None>"
Absent == "<absent>"
Null == "<null>"

(***************************************************************************)
(* Python truth of a numeral or optional string: None, zero and the empty  *)
(* string are false.                                                       *)
(***************************************************************************)
Truthy(v) == v \notin {None, "0", ""}

\* Python truth of an optional string (a configuration value): "0" is true.
TruthyStr(v) == v \notin {None, ""}

\* dict.get(key, default) on a decoded JSON object: the default is used only
\* for a missing key, a null is returned as None.
Get(v, default) == IF v = Absent THEN default ELSE IF v = Null THEN None ELSE v

(***************************************************************************)
(* str.startswith for a dotted prefix such as '192.168.': the text of ip   *)
(* starts with the labels of the prefix, each followed by a dot, exactly   *)
(* when ip has more labels than the prefix and agrees with it on them.     *)
(***************************************************************************)
StartsWith(ip, prefix) ==
    /\ Len(ip) > Len(prefix)
    /\ \A k \in 1..Len(prefix) : ip[k] = prefix[k]

(***************************************************************************)
(* Geolocation providers.  The reply of a provider to one lookup is a      *)
(* record: status is "exc" for a timeout or transport error, else the HTTP *)
(* status; the other fields are the values of the JSON keys the code       *)
(* reads.  loc is ipinfo's "lat,lon" string, given as its comma-separated  *)
(* parts (<<Absent>> for a missing key, <<Null>> for a null).              *)
(***************************************************************************)
Reply(status, country, city, region, latitude, longitude, loc) ==
    [status |-> status, country |-> country, city |-> city, region |-> region,
     latitude |-> latitude, longitude |-> longitude, loc |-> loc]

\* What a _try_* method returns: a dict (some = TRUE) or None (some = FALSE).
NoResult ==
    [some |-> FALSE, country |-> None, city |-> None, region |-> None,
     latitude |-> None, longitude |-> None, service |-> None]

Result(country, city, region, latitude, longitude, service) ==
    [some |-> TRUE, country |-> country, city |-> city, region |-> region,
     latitude |-> latitude, longitude |-> longitude, service |-> service]

\* float(x) raises TypeError on None and ValueError on text that is no number.
FloatRaises(v) == v \in {None, "", "abc"}

\* float(x) or None
FloatOrNone(v) == IF v = "0" THEN None ELSE v

try_ipapi(reply) ==
    IF reply.status # "200" THEN NoResult
    ELSE LET lat == Get(reply.latitude, "0")
             lng == Get(reply.longitude, "0")
         IN  IF FloatRaises(lat) \/ FloatRaises(lng) THEN NoResult
             ELSE Result(Get(reply.country, "Unknown"), Get(reply.city, "Unknown"),
                         Get(reply.region, "Unknown"),
                         FloatOrNone(lat), FloatOrNone(lng), "ipapi")

try_ipinfo(reply) ==
    IF reply.status # "200" THEN NoResult
    ELSE IF reply.loc = <<Null>> THEN NoResult      \* None.split: AttributeError
    ELSE LET loc == IF reply.loc = <<Absent>> THEN <<"">> ELSE reply.loc
             latRaw == IF Len(loc) > 0 /\ loc[1] # "" THEN loc[1] ELSE None
             lngRaw == IF Len(loc) > 1 /\ loc[2] # "" THEN loc[2] ELSE None
         IN  IF (latRaw # None /\ FloatRaises(latRaw))
                \/ (lngRaw # None /\ FloatRaises(lngRaw)) THEN NoResult
             ELSE Result(Get(reply.country, "Unknown"), Get(reply.city, "Unknown"),
                         Get(reply.region, "Unknown"), latRaw, lngRaw, "ipinfo")

try_geoplugin(reply) ==
    IF reply.status # "200" THEN NoResult
    ELSE LET lat == Get(reply.latitude, "0")
             lng == Get(reply.longitude, "0")
         IN  IF FloatRaises(lat) \/ FloatRaises(lng) THEN NoResult
             ELSE Result(Get(reply.country, "Unknown"), Get(reply.city, "Unknown"),
                         Get(reply.region, "Unknown"),
                         FloatOrNone(lat), FloatOrNone(lng), "geoplugin")

(***************************************************************************)
(* PDFTracker.get_accurate_location (debug_app.py).                        *)
(***************************************************************************)
AccuracyDefault == 10000
AccuracyLocal == 50000
AccuracyCoords == 1000
AccuracyCity == 5000

\* The record of lines 59-69 with the coordinates of a fixed place where the
\* code has None.
DefaultLocation_FixedPlace(ip) ==
    [ip |-> ip, country |-> "Unknown", city |-> "Unknown", region |-> "Unknown",
     latitude |-> "40.7128", longitude |-> "-74.0060",
     accuracy |-> AccuracyDefault,
     gps_source |-> "ip_geolocation", service |-> "none"]

DefaultLocation(ip) ==
    [ip |-> ip, country |-> "Unknown", city |-> "Unknown", region |-> "Unknown",
     latitude |-> None, longitude |-> None, accuracy |-> AccuracyDefault,
     gps_source |-> "ip_geolocation", service |-> "none"]

\* An update that fills only what is still unknown: country, city and region
\* an earlier provider gave stay, the coordinates come from this one.
UpdateLocation_KeepsKnown(loc, result) ==
    [loc EXCEPT !.country = IF @ = "Unknown" THEN result.country ELSE @,
                !.city = IF @ = "Unknown" THEN result.city ELSE @,
                !.region = IF @ = "Unknown" THEN result.region ELSE @,
                !.latitude = result.latitude,
                !.longitude = result.longitude, !.service = result.service]

\* location_data.update(result)
UpdateLocation(loc, result) ==
    [loc EXCEPT !.country = result.country, !.city = result.city,
                !.region = result.region, !.latitude = result.latitude,
                !.longitude = result.longitude, !.service = result.service]

\* The "Skip local IPs" test.
IsSkippedIP(ip) ==
    \/ ip \in {<<"127", "0", "0", "1">>, <<"localhost">>}
    \/ StartsWith(ip, <<"192", "168">>)
    \/ StartsWith(ip, <<"10">>)
    \/ StartsWith(ip, <<"172">>)
    \/ StartsWith(ip, <<"0">>)

\* The loop without line 90: a result with coordinates leaves the accuracy
\* the record had when the result was reached.
RECURSIVE SelectLocation_StaleAccuracy(_, _)
SelectLocation_StaleAccuracy(loc, results) ==
    IF results = <<>> THEN loc
    ELSE LET result == Head(results) IN
         IF result.some /\ Truthy(result.latitude) /\ Truthy(result.longitude)
         THEN UpdateLocation(loc, result)
         ELSE IF result.some /\ result.city # "Unknown"
         THEN LET upd == UpdateLocation(loc, result) IN
              SelectLocation_StaleAccuracy(
                  IF ~Truthy(upd.latitude) \/ ~Truthy(upd.longitude)
                  THEN [upd EXCEPT !.accuracy = AccuracyCity] ELSE upd,
                  Tail(results))
         ELSE SelectLocation_StaleAccuracy(loc, Tail(results))

\* The loop over the results of the three services.
RECURSIVE SelectLocation(_, _)
SelectLocation(loc, results) ==
    IF results = <<>> THEN loc
    ELSE LET result == Head(results) IN
         IF result.some /\ Truthy(result.latitude) /\ Truthy(result.longitude)
         THEN [UpdateLocation(loc, result) EXCEPT !.accuracy = AccuracyCoords]
         ELSE IF result.some /\ result.city # "Unknown"
         THEN LET upd == UpdateLocation(loc, result) IN
              SelectLocation(
                  IF ~Truthy(upd.latitude) \/ ~Truthy(upd.longitude)
                  THEN [upd EXCEPT !.accuracy = AccuracyCity] ELSE upd,
                  Tail(results))
         ELSE SelectLocation(loc, Tail(results))

\* replies[1..3]: what ipapi, ipinfo and geoplugin answer for this lookup.
get_accurate_location(ip, replies) ==
    IF IsSkippedIP(ip)
    THEN [DefaultLocation(ip) EXCEPT !.country = "Local Network",
                                     !.city = "Internal",
                                     !.accuracy = AccuracyLocal]
    ELSE SelectLocation(DefaultLocation(ip),
                        <<try_ipapi(replies[1]), try_ipinfo(replies[2]),
                          try_geoplugin(replies[3])>>)

\* The outbound calls get_accurate_location makes, in order.
get_accurate_location_calls(ip) ==
    IF IsSkippedIP(ip) THEN <<>>
    ELSE <<"GET ipapi.co", "GET ipinfo.io", "GET geoplugin.net">>

(***************************************************************************)
(* ProductionPDFTracker.get_geo_info (app.py) and                          *)
(* DebugPDFTracker.get_geo_info (debud_app.py), which is the same code.    *)
(***************************************************************************)
IsLocalPrefix(ip) ==
    \/ StartsWith(ip, <<"192", "168">>)
    \/ StartsWith(ip, <<"10">>)
    \/ StartsWith(ip, <<"172">>)
    \/ StartsWith(ip, <<"127">>)
    \/ StartsWith(ip, <<"0">>)

get_geo_info(ip, replies) ==
    IF IsLocalPrefix(ip)
    THEN [country |-> "Local", city |-> "Internal", ip |-> ip]
    ELSE IF replies[1].status = "200"
    THEN [country |-> Get(replies[1].country, "Unknown"),
          city |-> Get(replies[1].city, "Unknown"), ip |-> ip]
    ELSE [country |-> "Unknown", city |-> "Unknown", ip |-> ip]

get_geo_info_calls(ip) ==
    IF IsLocalPrefix(ip) THEN <<>> ELSE <<"GET ipapi.co">>

(***************************************************************************)
(* Configuration.  An environment e maps each variable name to Absent      *)
(* (unset), "" (set to the empty string) or a non-empty value.             *)
(***************************************************************************)
EnvNames ==
    {"EMAIL_FROM", "EMAIL_PASSWORD", "EMAIL_TO",
     "WHATSAPP_INSTANCE_ID", "WHATSAPP_TOKEN", "WHATSAPP_TO_NUMBER"}

\* os.getenv(name, default) and os.getenv(name)
Getenv(e, name, default) == IF e[name] = Absent THEN default ELSE e[name]
GetenvOrNone(e, name) == Getenv(e, name, None)

(***************************************************************************)
(* Outcome of the one SMTP conversation of a send (connect, starttls,      *)
(* login, send_message, quit): "ok", or the exception that ends it.        *)
(* Outcome of the one POST to the chat API: "exc" (RequestException:       *)
(* timeout, connection refused), "badjson" (200 with a body that is no     *)
(* JSON), "500" (a non-200 status), "200 sent" / "200 not sent" (status    *)
(* 200 and the value of the "sent" key of the body).                       *)
(***************************************************************************)
SmtpOutcomes == {"ok", "SMTPAuthenticationError", "SMTPException", "timeout"}
ChatOutcomes == {"200 sent", "200 not sent", "500", "exc", "badjson"}

Numerals == {"0", "51.5", "7.4", "40.7128", "-74.0060"}

\* What a send operation returns, and the outbound calls it made.
Sent(status, calls) == [status |-> status, calls |-> calls]

\* The outcome of the call of a send, None when it made no call.
Heard(sent, outcome) == IF sent.calls = <<>> THEN None ELSE outcome

(***************************************************************************)
(* Composing the message of debug_app.py raises when a value it formats    *)
(* with a float format (coordinates it found to be true) is no number.     *)
(***************************************************************************)
FormatRaises(location_data) ==
    /\ Truthy(location_data.latitude)
    /\ Truthy(location_data.longitude)
    /\ \/ location_data.latitude \notin Numerals
       \/ location_data.longitude \notin Numerals

\* A send_email_notification that opens a second SMTP conversation when the
\* first one failed.
PDFTracker_send_email_notification_Retries(e, location_data, outcome) ==
    LET email_from == Getenv(e, "EMAIL_FROM", "")
        email_password == Getenv(e, "EMAIL_PASSWORD", "")
    IN  IF ~TruthyStr(email_from) \/ ~TruthyStr(email_password)
        THEN Sent("not_configured", <<>>)
        ELSE IF FormatRaises(location_data)
        THEN Sent("error: format", <<>>)
        ELSE IF outcome = "ok" THEN Sent("sent", <<"SMTP">>)
        ELSE Sent("error: " \o outcome, <<"SMTP", "SMTP">>)

\* PDFTracker.send_email_notification (debug_app.py)
PDFTracker_send_email_notification(e, location_data, outcome) ==
    LET email_from == Getenv(e, "EMAIL_FROM", "")
        email_password == Getenv(e, "EMAIL_PASSWORD", "")
    IN  IF ~TruthyStr(email_from) \/ ~TruthyStr(email_password)
        THEN Sent("not_configured", <<>>)
        ELSE IF FormatRaises(location_data)
        THEN Sent("error: format", <<>>)
        ELSE IF outcome = "ok" THEN Sent("sent", <<"SMTP">>)
        ELSE Sent("error: " \o outcome, <<"SMTP">>)

\* A send_whatsapp_notification that takes every answer of the chat API for
\* a success: only an exception of the POST gives an error status.
PDFTracker_send_whatsapp_notification_TrustsReply(e, location_data, outcome) ==
    LET instance_id == Getenv(e, "WHATSAPP_INSTANCE_ID", "")
        token == Getenv(e, "WHATSAPP_TOKEN", "")
        to_number == Getenv(e, "WHATSAPP_TO_NUMBER", "")
    IN  IF ~(TruthyStr(instance_id) /\ TruthyStr(token) /\ TruthyStr(to_number))
        THEN Sent("not_configured", <<>>)
        ELSE IF FormatRaises(location_data)
        THEN Sent("error: format", <<>>)
        ELSE IF outcome \in {"exc", "badjson"}
        THEN Sent("error: " \o outcome, <<"POST ultramsg">>)
        ELSE Sent("sent", <<"POST ultramsg">>)

\* PDFTracker.send_whatsapp_notification (debug_app.py)
PDFTracker_send_whatsapp_notification(e, location_data, outcome) ==
    LET instance_id == Getenv(e, "WHATSAPP_INSTANCE_ID", "")
        token == Getenv(e, "WHATSAPP_TOKEN", "")
        to_number == Getenv(e, "WHATSAPP_TO_NUMBER", "")
    IN  IF ~(TruthyStr(instance_id) /\ TruthyStr(token) /\ TruthyStr(to_number))
        THEN Sent("not_configured", <<>>)
        ELSE IF FormatRaises(location_data)
        THEN Sent("error: format", <<>>)
        ELSE IF outcome = "200 sent" THEN Sent("sent", <<"POST ultramsg">>)
        ELSE IF outcome = "200 not sent"
        THEN Sent("api_error: not sent", <<"POST ultramsg">>)
        ELSE IF outcome = "500" THEN Sent("http_error: 500", <<"POST ultramsg">>)
        ELSE Sent("error: " \o outcome, <<"POST ultramsg">>)

\* ProductionPDFTracker.send_email_notification (app.py)
ProductionPDFTracker_send_email_notification(e, outcome) ==
    IF ~(/\ TruthyStr(GetenvOrNone(e, "EMAIL_FROM"))
         /\ TruthyStr(GetenvOrNone(e, "EMAIL_PASSWORD"))
         /\ TruthyStr(GetenvOrNone(e, "EMAIL_TO")))
    THEN Sent("not_configured", <<>>)
    ELSE IF outcome = "ok" THEN Sent("sent", <<"SMTP">>)
    ELSE Sent("error: " \o outcome, <<"SMTP">>)

\* ProductionPDFTracker.send_whatsapp_notification (app.py)
ProductionPDFTracker_send_whatsapp_notification(e, outcome) ==
    IF ~(/\ TruthyStr(GetenvOrNone(e, "WHATSAPP_INSTANCE_ID"))
         /\ TruthyStr(GetenvOrNone(e, "WHATSAPP_TOKEN"))
         /\ TruthyStr(GetenvOrNone(e, "WHATSAPP_TO_NUMBER")))
    THEN Sent("not_configured", <<>>)
    ELSE IF outcome \in {"200 sent", "200 not sent", "badjson"}
    THEN Sent("sent", <<"POST ultramsg">>)
    ELSE IF outcome = "500" THEN Sent("api_error_500", <<"POST ultramsg">>)
    ELSE Sent("error: " \o outcome, <<"POST ultramsg">>)

\* DebugPDFTracker.send_email_notification (debud_app.py)
DebugPDFTracker_send_email_notification(e, outcome) ==
    IF ~(/\ TruthyStr(GetenvOrNone(e, "EMAIL_FROM"))
         /\ TruthyStr(GetenvOrNone(e, "EMAIL_PASSWORD"))
         /\ TruthyStr(GetenvOrNone(e, "EMAIL_TO")))
    THEN Sent("config_error: Email configuration incomplete", <<>>)
    ELSE IF outcome = "ok" THEN Sent("sent", <<"SMTP">>)
    ELSE IF outcome = "SMTPAuthenticationError"
    THEN Sent("auth_error: SMTP Authentication failed", <<"SMTP">>)
    ELSE IF outcome = "SMTPException" THEN Sent("smtp_error: SMTP error", <<"SMTP">>)
    ELSE Sent("error: Unexpected error: " \o outcome, <<"SMTP">>)

\* DebugPDFTracker.send_whatsapp_notification (debud_app.py)
DebugPDFTracker_send_whatsapp_notification(e, outcome) ==
    IF ~(/\ TruthyStr(GetenvOrNone(e, "WHATSAPP_INSTANCE_ID"))
         /\ TruthyStr(GetenvOrNone(e, "WHATSAPP_TOKEN"))
         /\ TruthyStr(GetenvOrNone(e, "WHATSAPP_TO_NUMBER")))
    THEN Sent("config_error: WhatsApp configuration incomplete", <<>>)
    ELSE IF outcome \in {"200 sent", "200 not sent", "badjson"}
    THEN Sent("sent", <<"POST ultramsg">>)
    ELSE IF outcome = "500" THEN Sent("api_error: API returned 500", <<"POST ultramsg">>)
    ELSE Sent("request_error: Request failed: " \o outcome, <<"POST ultramsg">>)

(***************************************************************************)
(* Tracking invocations.  A request is what the web framework hands to     *)
(* track_pdf_access: the route parameters, the X-Forwarded-For header as   *)
(* its comma-separated entries (<<>> when the header is missing or empty), *)
(* the peer address, the User-Agent and the outcome of get_json().         *)
(*                                                                         *)
(* A body is a record: kind "none" (no body, a body that is no JSON, or a  *)
(* JSON null: get_json() raises or returns None), "object" (a JSON object, *)
(* with the values of the keys the code reads) or "list" (a JSON value     *)
(* that is true in Python and is no object).                               *)
(***************************************************************************)
MaxReq == 2

Reqs == 1..MaxReq

Body(kind, latitude, longitude, accuracy) ==
    [kind |-> kind, latitude |-> latitude, longitude |-> longitude,
     accuracy |-> accuracy]

\* accuracy is <<>> for a missing key, else <<metres>>.
NoBody == Body("none", Absent, Absent, <<>>)
GpsBody == Body("object", "40.7128", "-74.0060", <<15>>)
ListBody == Body("list", Absent, Absent, <<>>)

Request(method, pdf_id, client_name, xff, remote_addr, body) ==
    [method |-> method, pdf_id |-> pdf_id, client_name |-> client_name,
     xff |-> xff, remote_addr |-> remote_addr, user_agent |-> "Mozilla/5.0",
     body |-> body]

LocalAddr == <<"192", "168", "1", "5">>
PublicAddr == <<"8", "8", "8", "8">>

\* The requests the environment sends to the /track-pdf route.
Requests ==
    {Request("GET", "DOC2", "Bob", <<>>, LocalAddr, NoBody),
     Request("GET", "DOC1", "Alice", <<PublicAddr, LocalAddr>>, LocalAddr, NoBody),
     Request("POST", "DOC1", "Alice", <<>>, LocalAddr, GpsBody),
     Request("POST", "DOC1", "Alice", <<>>, LocalAddr, ListBody)}

\* The replies of the three providers to the lookups of the pipeline.
ReplyFail == Reply("exc", Absent, Absent, Absent, Absent, Absent, <<Absent>>)
ReplyFull(k) ==
    Reply("200", "Country" \o k, "City" \o k, "Region" \o k, "51.5", "7.4",
          <<"51.5", "7.4">>)
PipelineReplies == {<<ReplyFull("1"), ReplyFail, ReplyFail>>}

\* The outcomes of the channel calls of the pipeline.
PipelineSmtpOutcomes == {"ok", "timeout"}
PipelineChatOutcomes == {"200 sent", "500"}

\* Lines 428-431 with [-1] for [0]: the entry the nearest proxy appended.
SourceIP_LastEntry(r) ==
    IF r.xff # <<>> THEN r.xff[Len(r.xff)] ELSE r.remote_addr

\* Lines 428-431 of track_pdf_access: the source IP of a request.
SourceIP(r) == IF r.xff # <<>> THEN r.xff[1] ELSE r.remote_addr

\* Lines 436-443: gps_data as the handler passes it on.
GpsData(r) == IF r.method = "POST" THEN r.body ELSE NoBody

NoInv ==
    [method |-> None, pdf_id |-> None, client_name |-> None,
     ip_address |-> <<>>, user_agent |-> None, gps_data |-> NoBody]

NoLocation == [gps_source |-> None]

IdleTask ==
    [pc |-> "idle", access_time |-> 0, location_data |-> NoLocation,
     record_id |-> 0, email_status |-> None, whatsapp_status |-> None,
     smtp_reply |-> None, chat_reply |-> None]

(***************************************************************************)
(* The configurations of the pipeline: each channel wholly configured or   *)
(* wholly unset.                                                           *)
(***************************************************************************)
EnvOf(email, chat) ==
    [n \in EnvNames |->
        IF n \in {"EMAIL_FROM", "EMAIL_PASSWORD", "EMAIL_TO"}
        THEN (IF email THEN "x" ELSE Absent)
        ELSE (IF chat THEN "x" ELSE Absent)]

PipelineEnvs == {EnvOf(email, chat) : email \in BOOLEAN, chat \in BOOLEAN}

(***************************************************************************)
(* debug_app.py: track_pdf_access starts the detached thread and returns.  *)
(***************************************************************************)
GpsAccuracyDefault == 50

\* Lines 349-364 of process_notifications: the location to persist.  The
\* bodies of the model carry no country, city or region key, so those come
\* from the IP location.
ChooseLocation(gps_data, ip_location_data) ==
    IF /\ gps_data.kind = "object"
       /\ Truthy(Get(gps_data.latitude, None))
       /\ Truthy(Get(gps_data.longitude, None))
    THEN [ip |-> ip_location_data.ip,
          country |-> ip_location_data.country,
          city |-> ip_location_data.city,
          region |-> ip_location_data.region,
          latitude |-> gps_data.latitude,
          longitude |-> gps_data.longitude,
          accuracy |-> IF gps_data.accuracy = <<>> THEN GpsAccuracyDefault
                       ELSE gps_data.accuracy[1],
          gps_source |-> "browser_gps",
          service |-> "browser_geolocation"]
    ELSE ip_location_data

\* gps_data.get(...) on a value that is no dict raises AttributeError; the
\* test `gps_data and ...` reaches it only for a value that is true.
GpsRaises(gps_data) == gps_data.kind = "list"

\* The row of the INSERT of process_notifications (lines 368-379).
NewRow(id, i, t) ==
    [id |-> id, pdf_id |-> inv[i].pdf_id, client_name |-> inv[i].client_name,
     access_time |-> t.access_time, ip_address |-> inv[i].ip_address,
     country |-> t.location_data.country, city |-> t.location_data.city,
     region |-> t.location_data.region, latitude |-> t.location_data.latitude,
     longitude |-> t.location_data.longitude,
     accuracy |-> t.location_data.accuracy,
     gps_source |-> t.location_data.gps_source,
     user_agent |-> inv[i].user_agent,
     email_status |-> "processing", whatsapp_status |-> "processing",
     status |-> "opened"]

\* The UPDATE without its WHERE clause: every row gets the statuses.
UpdateStatus_NoWhere(table, record_id, email_status, whatsapp_status) ==
    [k \in 1..Len(table) |->
        [table[k] EXCEPT !.email_status = email_status,
                         !.whatsapp_status = whatsapp_status]]

\* The UPDATE with WHERE pdf_id = (the document of the row) instead of
\* WHERE id = ?: every event of that document gets the statuses.
UpdateStatus_ByDocument(table, record_id, email_status, whatsapp_status) ==
    [k \in 1..Len(table) |->
        IF \E j \in 1..Len(table) :
               table[j].id = record_id /\ table[j].pdf_id = table[k].pdf_id
        THEN [table[k] EXCEPT !.email_status = email_status,
                              !.whatsapp_status = whatsapp_status]
        ELSE table[k]]

\* The UPDATE of process_notifications (lines 392-396).
UpdateStatus(table, record_id, email_status, whatsapp_status) ==
    [k \in 1..Len(table) |->
        IF table[k].id = record_id
        THEN [table[k] EXCEPT !.email_status = email_status,
                              !.whatsapp_status = whatsapp_status]
        ELSE table[k]]

\* The response of track_pdf_access (lines 451-459).
Response(method) == IF method = "POST" THEN "200 ack" ELSE "200 pixel"

\* track_pdf_access of debug_app.py, up to its return: the handler extracts
\* the inputs, starts the thread of record_access_async and responds.
Track(i, r) ==
    /\ app = "debug_app"
    /\ i = nreq + 1
    /\ nreq' = i
    /\ inv' = [inv EXCEPT ![i] =
                  [method |-> r.method, pdf_id |-> r.pdf_id,
                   client_name |-> r.client_name, ip_address |-> SourceIP(r),
                   user_agent |-> r.user_agent, gps_data |-> GpsData(r)]]
    /\ task' = [task EXCEPT ![i].pc = "resolve"]
    /\ resp' = [resp EXCEPT ![i] = Response(r.method)]
    /\ log' = [log EXCEPT ![i] = Append(@, "RESPOND")]
    /\ UNCHANGED <<app, env, rows, probe>>

\* process_notifications, lines 336-364: the IP lookup, the time stamp and
\* the choice between GPS and IP location.
TaskResolve(i, replies) ==
    /\ app = "debug_app"
    /\ task[i].pc = "resolve"
    /\ LET ip_location_data == get_accurate_location(inv[i].ip_address, replies)
       IN  /\ log' = [log EXCEPT ![i] =
                         @ \o get_accurate_location_calls(inv[i].ip_address)]
           /\ IF GpsRaises(inv[i].gps_data)
              THEN task' = [task EXCEPT ![i].pc = "done", ![i].access_time = nreq]
              ELSE task' = [task EXCEPT
                               ![i].pc = "insert",
                               ![i].access_time = nreq,
                               ![i].location_data =
                                   ChooseLocation(inv[i].gps_data, ip_location_data)]
    /\ UNCHANGED <<app, env, nreq, inv, resp, rows, probe>>

\* Lines 366-382: INSERT, commit, lastrowid.  The store may refuse the write
\* (ok = FALSE); the exception ends the thread at line 406.
TaskInsert(i, ok) ==
    /\ app = "debug_app"
    /\ task[i].pc = "insert"
    /\ IF ok
       THEN /\ rows' = Append(rows, NewRow(Len(rows) + 1, i, task[i]))
            /\ task' = [task EXCEPT ![i].pc = "notify",
                                    ![i].record_id = Len(rows) + 1]
            /\ log' = [log EXCEPT ![i] = Append(@, "INSERT")]
       ELSE /\ task' = [task EXCEPT ![i].pc = "done"]
            /\ log' = [log EXCEPT ![i] = Append(@, "INSERT failed")]
            /\ UNCHANGED rows
    /\ UNCHANGED <<app, env, nreq, inv, resp, probe>>

\* Lines 384-397 with a send_email_notification that lets the exception of a
\* failed SMTP conversation escape: the thread ends at line 406, before the
\* chat send and the UPDATE.
TaskNotify_EmailErrorEscapes(i, smtp, chat) ==
    /\ app = "debug_app"
    /\ task[i].pc = "notify"
    /\ LET email == PDFTracker_send_email_notification(
                        env, task[i].location_data, smtp)
           whatsapp == PDFTracker_send_whatsapp_notification(
                           env, task[i].location_data, chat)
       IN  IF email.status \in {"sent", "not_configured"}
           THEN /\ rows' = UpdateStatus(rows, task[i].record_id, email.status,
                                        whatsapp.status)
                /\ task' = [task EXCEPT ![i].pc = "done",
                                        ![i].email_status = email.status,
                                        ![i].whatsapp_status = whatsapp.status,
                                        ![i].smtp_reply = Heard(email, smtp),
                                        ![i].chat_reply = Heard(whatsapp, chat)]
                /\ log' = [log EXCEPT ![i] =
                              (Append(@, "send_email") \o email.calls)
                              \o (<<"send_whatsapp">> \o whatsapp.calls)
                              \o <<"UPDATE">>]
           ELSE /\ task' = [task EXCEPT ![i].pc = "done",
                                        ![i].smtp_reply = Heard(email, smtp)]
                /\ log' = [log EXCEPT ![i] =
                              Append(@, "send_email") \o email.calls]
                /\ UNCHANGED rows
    /\ UNCHANGED <<app, env, nreq, inv, resp, probe>>

\* Lines 384-397 with an SMTP conversation that has no timeout: when the
\* server does not answer, the thread stays in the call.
TaskNotify_WaitsForever(i, smtp, chat) ==
    /\ app = "debug_app"
    /\ task[i].pc = "notify"
    /\ LET email == PDFTracker_send_email_notification(
                        env, task[i].location_data, smtp)
           whatsapp == PDFTracker_send_whatsapp_notification(
                           env, task[i].location_data, chat)
       IN  IF smtp = "timeout" /\ email.calls # <<>>
           THEN /\ task' = [task EXCEPT ![i].pc = "waiting"]
                /\ log' = [log EXCEPT ![i] =
                              Append(@, "send_email") \o email.calls]
                /\ UNCHANGED rows
           ELSE /\ rows' = UpdateStatus(rows, task[i].record_id, email.status,
                                        whatsapp.status)
                /\ task' = [task EXCEPT ![i].pc = "done",
                                        ![i].email_status = email.status,
                                        ![i].whatsapp_status = whatsapp.status,
                                        ![i].smtp_reply = Heard(email, smtp),
                                        ![i].chat_reply = Heard(whatsapp, chat)]
                /\ log' = [log EXCEPT ![i] =
                              (Append(@, "send_email") \o email.calls)
                              \o (<<"send_whatsapp">> \o whatsapp.calls)
                              \o <<"UPDATE">>]
    /\ UNCHANGED <<app, env, nreq, inv, resp, probe>>

\* Lines 384-397 with a send_email_notification that writes to the store
\* itself: it marks the row of the event as notified before it returns.
TaskNotify_SendMarksRow(i, smtp, chat) ==
    /\ app = "debug_app"
    /\ task[i].pc = "notify"
    /\ LET email == PDFTracker_send_email_notification(
                        env, task[i].location_data, smtp)
           whatsapp == PDFTracker_send_whatsapp_notification(
                           env, task[i].location_data, chat)
           marked == [k \in 1..Len(rows) |->
                         IF rows[k].id = task[i].record_id
                         THEN [rows[k] EXCEPT !.status = "notified"]
                         ELSE rows[k]]
       IN  /\ rows' = UpdateStatus(marked, task[i].record_id, email.status,
                                   whatsapp.status)
           /\ task' = [task EXCEPT ![i].pc = "done",
                                   ![i].email_status = email.status,
                                   ![i].whatsapp_status = whatsapp.status,
                                   ![i].smtp_reply = Heard(email, smtp),
                                   ![i].chat_reply = Heard(whatsapp, chat)]
           /\ log' = [log EXCEPT ![i] =
                         (Append(@, "send_email") \o email.calls)
                         \o (<<"send_whatsapp">> \o whatsapp.calls)
                         \o <<"UPDATE">>]
    /\ UNCHANGED <<app, env, nreq, inv, resp, probe>>

\* Lines 384-397: both sends, one after the other, and the UPDATE of the
\* row with the two statuses they returned.
TaskNotify(i, smtp, chat) ==
    /\ app = "debug_app"
    /\ task[i].pc = "notify"
    /\ LET email == PDFTracker_send_email_notification(
                        env, task[i].location_data, smtp)
           whatsapp == PDFTracker_send_whatsapp_notification(
                           env, task[i].location_data, chat)
       IN  /\ rows' = UpdateStatus(rows, task[i].record_id, email.status,
                                   whatsapp.status)
           /\ task' = [task EXCEPT ![i].pc = "done",
                                   ![i].email_status = email.status,
                                   ![i].whatsapp_status = whatsapp.status,
                                   ![i].smtp_reply = Heard(email, smtp),
                                   ![i].chat_reply = Heard(whatsapp, chat)]
           /\ log' = [log EXCEPT ![i] =
                         (Append(@, "send_email") \o email.calls)
                         \o (<<"send_whatsapp">> \o whatsapp.calls)
                         \o <<"UPDATE">>]
    /\ UNCHANGED <<app, env, nreq, inv, resp, probe>>

(***************************************************************************)
(* app.py and debud_app.py: track_pdf_access calls record_access and       *)
(* responds with its result.  The route accepts GET only, and the handler  *)
(* reads no body.  The steps are the suspension points of record_access.   *)
(***************************************************************************)
SyncApps == {"app", "debud_app"}

SyncSendEmail(a, e, outcome) ==
    IF a = "app" THEN ProductionPDFTracker_send_email_notification(e, outcome)
    ELSE DebugPDFTracker_send_email_notification(e, outcome)

SyncSendWhatsapp(a, e, outcome) ==
    IF a = "app" THEN ProductionPDFTracker_send_whatsapp_notification(e, outcome)
    ELSE DebugPDFTracker_send_whatsapp_notification(e, outcome)

\* The row of the INSERT of record_access (app.py lines 176-182).
SyncRow(id, i, t) ==
    [id |-> id, pdf_id |-> inv[i].pdf_id, client_name |-> inv[i].client_name,
     access_time |-> t.access_time, ip_address |-> inv[i].ip_address,
     country |-> t.location_data.country, city |-> t.location_data.city,
     user_agent |-> inv[i].user_agent,
     email_status |-> t.email_status, whatsapp_status |-> t.whatsapp_status,
     status |-> "opened"]

\* track_pdf_access up to the call of record_access (app.py lines 206-216).
SyncTrack(i, r) ==
    /\ app \in SyncApps
    /\ r.method = "GET"
    /\ i = nreq + 1
    /\ nreq' = i
    /\ inv' = [inv EXCEPT ![i] =
                  [method |-> r.method, pdf_id |-> r.pdf_id,
                   client_name |-> r.client_name, ip_address |-> SourceIP(r),
                   user_agent |-> r.user_agent, gps_data |-> NoBody]]
    /\ task' = [task EXCEPT ![i].pc = "geo"]
    /\ UNCHANGED <<app, env, resp, rows, log, probe>>

\* record_access, lines 159-168: the lookup and the time stamp.
SyncGeo(i, replies) ==
    /\ app \in SyncApps
    /\ task[i].pc = "geo"
    /\ task' = [task EXCEPT ![i].pc = "record",
                            ![i].access_time = nreq,
                            ![i].location_data =
                                get_geo_info(inv[i].ip_address, replies)]
    /\ log' = [log EXCEPT ![i] = @ \o get_geo_info_calls(inv[i].ip_address)]
    /\ UNCHANGED <<app, env, nreq, inv, resp, rows, probe>>

\* Lines 170-190: both sends, then INSERT and commit; record_access returns
\* True, or False when the store refuses the write (ok = FALSE).
SyncRecord(i, smtp, chat, ok) ==
    /\ app \in SyncApps
    /\ task[i].pc = "record"
    /\ LET email == SyncSendEmail(app, env, smtp)
           whatsapp == SyncSendWhatsapp(app, env, chat)
           t == [task[i] EXCEPT !.email_status = email.status,
                                !.whatsapp_status = whatsapp.status,
                                !.smtp_reply = Heard(email, smtp),
                                !.chat_reply = Heard(whatsapp, chat)]
           sends == (Append(log[i], "send_email") \o email.calls)
                    \o (<<"send_whatsapp">> \o whatsapp.calls)
       IN  IF ok
           THEN /\ rows' = Append(rows, SyncRow(Len(rows) + 1, i, t))
                /\ task' = [task EXCEPT ![i] =
                               [t EXCEPT !.pc = "respond",
                                         !.record_id = Len(rows) + 1]]
                /\ log' = [log EXCEPT ![i] = Append(sends, "INSERT")]
           ELSE /\ task' = [task EXCEPT ![i] = [t EXCEPT !.pc = "respond"]]
                /\ log' = [log EXCEPT ![i] = Append(sends, "INSERT failed")]
                /\ UNCHANGED rows
    /\ UNCHANGED <<app, env, nreq, inv, resp, probe>>

\* track_pdf_access, lines 218-227: the pixel, or "Tracking Error", 500.
SyncRespond(i) ==
    /\ app \in SyncApps
    /\ task[i].pc = "respond"
    /\ resp' = [resp EXCEPT ![i] =
                   IF task[i].record_id # 0 THEN "200 pixel" ELSE "500"]
    /\ task' = [task EXCEPT ![i].pc = "done"]
    /\ log' = [log EXCEPT ![i] = Append(@, "RESPOND")]
    /\ UNCHANGED <<app, env, nreq, inv, rows, probe>>


Apps == {"debug_app", "app", "debud_app"}

NoProbe == [fn |-> "none"]

Init ==
    /\ app \in Apps
    /\ env \in PipelineEnvs
    /\ nreq = 0
    /\ inv = [i \in Reqs |-> NoInv]
    /\ task = [i \in Reqs |-> IdleTask]
    /\ resp = [i \in Reqs |-> "none"]
    /\ rows = <<>>
    /\ log = [i \in Reqs |-> <<>>]
    /\ probe = NoProbe

Next ==
    \/ \E i \in Reqs, r \in Requests : Track(i, r)
    \/ \E i \in Reqs, replies \in PipelineReplies : TaskResolve(i, replies)
    \/ \E i \in Reqs, ok \in BOOLEAN : TaskInsert(i, ok)
    \/ \E i \in Reqs, smtp \in PipelineSmtpOutcomes, chat \in PipelineChatOutcomes :
          TaskNotify(i, smtp, chat)
    \/ \E i \in Reqs, r \in Requests : SyncTrack(i, r)
    \/ \E i \in Reqs, replies \in PipelineReplies : SyncGeo(i, replies)
    \/ \E i \in Reqs, smtp \in PipelineSmtpOutcomes, chat \in PipelineChatOutcomes,
          ok \in BOOLEAN : SyncRecord(i, smtp, chat, ok)
    \/ \E i \in Reqs : SyncRespond(i)

Spec == Init /\ [][Next]_vars

(***************************************************************************)
(* The pipeline of debug_app.py under the bodies a client can POST: the    *)
(* same handler and detached task as in Spec, on requests that differ in   *)
(* what get_json() makes of the body.                                      *)
(***************************************************************************)
\* A reading on the equator, on the prime meridian, one with a very coarse
\* accuracy, one without accuracy; objects with a null latitude, without
\* coordinates, and with text for a latitude.
EquatorBody == Body("object", "0", "-74.0060", <<15>>)
MeridianBody == Body("object", "51.5", "0", <<15>>)
CoarseBody == Body("object", "40.7128", "-74.0060", <<100000>>)
BareBody == Body("object", "40.7128", "-74.0060", <<>>)
NullBody == Body("object", Null, "-74.0060", <<15>>)
EmptyBody == Body("object", Absent, Absent, <<>>)
TextBody == Body("object", "abc", "-74.0060", <<15>>)

PostBodies ==
    {NoBody, ListBody, GpsBody, EquatorBody, MeridianBody, CoarseBody,
     BareBody, NullBody, EmptyBody, TextBody}

PostRequests ==
    {Request("POST", "DOC1", "Alice", xff, LocalAddr, body) :
        xff \in {<<>>, <<PublicAddr>>}, body \in PostBodies}

InitPost ==
    /\ app = "debug_app"
    /\ env \in {EnvOf(TRUE, TRUE), EnvOf(FALSE, FALSE)}
    /\ nreq = 0
    /\ inv = [i \in Reqs |-> NoInv]
    /\ task = [i \in Reqs |-> IdleTask]
    /\ resp = [i \in Reqs |-> "none"]
    /\ rows = <<>>
    /\ log = [i \in Reqs |-> <<>>]
    /\ probe = NoProbe

NextPost ==
    \/ \E i \in Reqs, r \in PostRequests : Track(i, r)
    \/ \E i \in Reqs, replies \in PipelineReplies : TaskResolve(i, replies)
    \/ \E i \in Reqs, ok \in BOOLEAN : TaskInsert(i, ok)
    \/ \E i \in Reqs, smtp \in PipelineSmtpOutcomes, chat \in PipelineChatOutcomes :
          TaskNotify(i, smtp, chat)

SpecPost == InitPost /\ [][NextPost]_vars

(***************************************************************************)
(* The same pipeline for the origin of the stored coordinates: POSTs from  *)
(* a local and from a public address, with a reading, with a reading on    *)
(* the equator, with text for a latitude and without coordinates; no       *)
(* channel is configured.                                                  *)
(***************************************************************************)
CoordBodies == {GpsBody, EquatorBody, EmptyBody, TextBody}

CoordRequests == {r \in PostRequests : r.body \in CoordBodies}

InitCoords ==
    /\ app = "debug_app"
    /\ env = EnvOf(FALSE, FALSE)
    /\ nreq = 0
    /\ inv = [i \in Reqs |-> NoInv]
    /\ task = [i \in Reqs |-> IdleTask]
    /\ resp = [i \in Reqs |-> "none"]
    /\ rows = <<>>
    /\ log = [i \in Reqs |-> <<>>]
    /\ probe = NoProbe

NextCoords ==
    \/ \E i \in Reqs, r \in CoordRequests : Track(i, r)
    \/ \E i \in Reqs, replies \in PipelineReplies : TaskResolve(i, replies)
    \/ \E i \in Reqs, ok \in BOOLEAN : TaskInsert(i, ok)
    \/ \E i \in Reqs, smtp \in PipelineSmtpOutcomes, chat \in PipelineChatOutcomes :
          TaskNotify(i, smtp, chat)

SpecCoords == InitCoords /\ [][NextCoords]_vars

(***************************************************************************)
(* The pipeline of debug_app.py under every outcome of the two channel     *)
(* calls: the handler and detached task of Spec, on the GET request that   *)
(* came through a proxy and with both channels configured, the SMTP        *)
(* conversation and the POST to the chat API ending in any of the ways     *)
(* they can end.                                                           *)
(***************************************************************************)
GetRequests == {r \in Requests : r.method = "GET" /\ r.xff # <<>>}

InitChannels ==
    /\ app = "debug_app"
    /\ env = EnvOf(TRUE, TRUE)
    /\ nreq = 0
    /\ inv = [i \in Reqs |-> NoInv]
    /\ task = [i \in Reqs |-> IdleTask]
    /\ resp = [i \in Reqs |-> "none"]
    /\ rows = <<>>
    /\ log = [i \in Reqs |-> <<>>]
    /\ probe = NoProbe

NextChannels ==
    \/ \E i \in Reqs, r \in GetRequests : Track(i, r)
    \/ \E i \in Reqs, replies \in PipelineReplies : TaskResolve(i, replies)
    \/ \E i \in Reqs, ok \in BOOLEAN : TaskInsert(i, ok)
    \/ \E i \in Reqs, smtp \in SmtpOutcomes, chat \in ChatOutcomes :
          TaskNotify(i, smtp, chat)

SpecChannels == InitChannels /\ [][NextChannels]_vars

(***************************************************************************)
(* The detached tasks of debug_app.py under a fair scheduler.  Each step   *)
(* of a task ends: the lookups, the SMTP conversation and the POST carry   *)
(* timeouts (lines 103, 121, 143, 230, 315), the store answers, and the    *)
(* threads of a running process are scheduled.  Nothing obliges a request  *)
(* to arrive.                                                              *)
(***************************************************************************)
LiveRequests ==
    {r \in Requests : r.xff # <<>> \/ r.body = ListBody}

InitLive ==
    /\ app = "debug_app"
    /\ env \in {EnvOf(TRUE, TRUE), EnvOf(TRUE, FALSE)}
    /\ nreq = 0
    /\ inv = [i \in Reqs |-> NoInv]
    /\ task = [i \in Reqs |-> IdleTask]
    /\ resp = [i \in Reqs |-> "none"]
    /\ rows = <<>>
    /\ log = [i \in Reqs |-> <<>>]
    /\ probe = NoProbe

NextLive ==
    \/ \E i \in Reqs, r \in LiveRequests : Track(i, r)
    \/ \E i \in Reqs, replies \in PipelineReplies : TaskResolve(i, replies)
    \/ \E i \in Reqs, ok \in BOOLEAN : TaskInsert(i, ok)
    \/ \E i \in Reqs, smtp \in PipelineSmtpOutcomes, chat \in PipelineChatOutcomes :
          TaskNotify(i, smtp, chat)

FairLive ==
    \A i \in Reqs :
        /\ WF_vars(\E replies \in PipelineReplies : TaskResolve(i, replies))
        /\ WF_vars(\E ok \in BOOLEAN : TaskInsert(i, ok))
        /\ WF_vars(\E smtp \in PipelineSmtpOutcomes, chat \in PipelineChatOutcomes :
                      TaskNotify(i, smtp, chat))

SpecLive == InitLive /\ [][NextLive]_vars /\ FairLive

(***************************************************************************)
(* GET /analytics/<pdf_id>: get_pdf_analytics reads the table through the  *)
(* connection of the tracker.  SELECT ... WHERE pdf_id = ? ORDER BY         *)
(* access_time DESC returns the rows of the document, later access_time    *)
(* first; the order of rows with the same access_time is not determined.   *)
(***************************************************************************)
PdfIds == {"DOC1", "DOC2"}

\* A selection that leaves out the events whose notifications are pending.
Selected_OnlyNotified(table, pdf_id) ==
    {k \in 1..Len(table) :
        /\ table[k].pdf_id = pdf_id
        /\ table[k].email_status # "processing"
        /\ table[k].whatsapp_status # "processing"}

\* The positions in the table of the rows the WHERE clause selects.
Selected(table, pdf_id) == {k \in 1..Len(table) : table[k].pdf_id = pdf_id}

\* The selection without the WHERE clause.
Fetched_AllRows(table, pdf_id) ==
    {o \in [1..Len(table) -> 1..Len(table)] :
        /\ \A j \in 1..Len(table), k \in 1..Len(table) : o[j] = o[k] => j = k
        /\ \A j \in 1..Len(table), k \in 1..Len(table) :
               j < k => table[o[j]].access_time >= table[o[k]].access_time}

\* The orders in which fetchall() can return the selected rows.
Fetched(table, pdf_id) ==
    LET sel == Selected(table, pdf_id)
        n == Cardinality(sel)
    IN  {o \in [1..n -> sel] :
            /\ \A j \in 1..n, k \in 1..n : o[j] = o[k] => j = k
            /\ \A j \in 1..n, k \in 1..n :
                   j < k => table[o[j]].access_time >= table[o[k]].access_time}

\* Lines 838-843 of get_pdf_analytics of debug_app.py: the dict map_links,
\* as the set of its items; a link is its prefix and the two coordinates.
MapLinks(row) ==
    IF Truthy(row.latitude) /\ Truthy(row.longitude)
    THEN {<<"google_maps", <<"https://www.google.com/maps?q=", row.latitude, row.longitude>>>>,
          <<"apple_maps", <<"https://maps.apple.com/?q=", row.latitude, row.longitude>>>>}
    ELSE {}

\* One entry of 'accesses': the columns the application selects, and in
\* debug_app.py the map links.
Access(row) ==
    IF app = "debug_app"
    THEN [client_name |-> row.client_name, access_time |-> row.access_time,
          country |-> row.country, city |-> row.city, region |-> row.region,
          latitude |-> row.latitude, longitude |-> row.longitude,
          accuracy |-> row.accuracy, gps_source |-> row.gps_source,
          ip_address |-> row.ip_address, user_agent |-> row.user_agent,
          email_status |-> row.email_status,
          whatsapp_status |-> row.whatsapp_status,
          map_links |-> MapLinks(row)]
    ELSE [client_name |-> row.client_name, access_time |-> row.access_time,
          country |-> row.country, city |-> row.city,
          ip_address |-> row.ip_address, user_agent |-> row.user_agent,
          email_status |-> row.email_status,
          whatsapp_status |-> row.whatsapp_status]

\* get_pdf_analytics.  The answer is kept in probe; rowids, the ids of the
\* rows behind the entries, is not part of the answer.
Analytics(pdf_id) ==
    /\ probe.fn \in {"none", "analytics"}
    /\ \E o \in Fetched(rows, pdf_id) :
          probe' = [fn |-> "analytics", pdf_id |-> pdf_id,
                    total_opens |-> Len(o),
                    accesses |-> [k \in 1..Len(o) |-> Access(rows[o[k]])],
                    rowids |-> [k \in 1..Len(o) |-> rows[o[k]].id]]
    /\ UNCHANGED <<app, env, nreq, inv, task, resp, rows, log>>

ReadRequests == {r \in Requests : r.method = "GET"}

\* The table is a file that outlives the process (CREATE TABLE IF NOT
\* EXISTS): it can hold the event of an earlier run, here a notified event
\* of document DOC2.
StoredRow(a) ==
    IF a = "debug_app"
    THEN [id |-> 1, pdf_id |-> "DOC2", client_name |-> "Bob", access_time |-> 0,
          ip_address |-> LocalAddr, country |-> "Local Network",
          city |-> "Internal", region |-> "Unknown", latitude |-> None,
          longitude |-> None, accuracy |-> AccuracyLocal,
          gps_source |-> "ip_geolocation", user_agent |-> "Mozilla/5.0",
          email_status |-> "sent", whatsapp_status |-> "not_configured",
          status |-> "opened"]
    ELSE [id |-> 1, pdf_id |-> "DOC2", client_name |-> "Bob", access_time |-> 0,
          ip_address |-> LocalAddr, country |-> "Local", city |-> "Internal",
          user_agent |-> "Mozilla/5.0",
          email_status |-> "sent", whatsapp_status |-> "not_configured",
          status |-> "opened"]

InitRead ==
    /\ app \in Apps
    /\ env = EnvOf(TRUE, FALSE)
    /\ nreq = 0
    /\ inv = [i \in Reqs |-> NoInv]
    /\ task = [i \in Reqs |-> IdleTask]
    /\ resp = [i \in Reqs |-> "none"]
    /\ rows \in {<<>>, <<StoredRow(app)>>}
    /\ log = [i \in Reqs |-> <<>>]
    /\ probe = NoProbe

NextRead ==
    \/ \E i \in Reqs, r \in ReadRequests : Track(i, r)
    \/ \E i \in Reqs, replies \in PipelineReplies : TaskResolve(i, replies)
    \/ \E i \in Reqs : TaskInsert(i, TRUE)
    \/ \E i \in Reqs, smtp \in PipelineSmtpOutcomes : TaskNotify(i, smtp, "500")
    \/ \E i \in Reqs, r \in ReadRequests : SyncTrack(i, r)
    \/ \E i \in Reqs, replies \in PipelineReplies : SyncGeo(i, replies)
    \/ \E i \in Reqs, smtp \in PipelineSmtpOutcomes : SyncRecord(i, smtp, "500", TRUE)
    \/ \E i \in Reqs : SyncRespond(i)
    \/ \E pdf_id \in PdfIds : Analytics(pdf_id)

SpecRead == InitRead /\ [][NextRead]_vars

(***************************************************************************)
(* The analytics of debug_app.py over events with and without coordinates: *)
(* tracking requests from a local and from a public address, with and      *)
(* without a GPS reading, for which ipapi answers with coordinates, or     *)
(* ipinfo answers with the location 0,0, or no provider answers.           *)
(***************************************************************************)
LinkRequests == {r \in Requests : r.body \in {NoBody, GpsBody}}

\* A provider that places the address at latitude 0, longitude 0.
ReplyZero ==
    Reply("200", "Country2", "City2", "Region2", "0", "0", <<"0", "0">>)

LinkReplies ==
    {<<ReplyFull("1"), ReplyFail, ReplyFail>>,
     <<ReplyFail, ReplyZero, ReplyFail>>,
     <<ReplyFail, ReplyFail, ReplyFail>>}

InitLinks ==
    /\ app = "debug_app"
    /\ env = EnvOf(FALSE, FALSE)
    /\ nreq = 0
    /\ inv = [i \in Reqs |-> NoInv]
    /\ task = [i \in Reqs |-> IdleTask]
    /\ resp = [i \in Reqs |-> "none"]
    /\ rows = <<>>
    /\ log = [i \in Reqs |-> <<>>]
    /\ probe = NoProbe

NextLinks ==
    \/ \E i \in Reqs, r \in LinkRequests : Track(i, r)
    \/ \E i \in Reqs, replies \in LinkReplies : TaskResolve(i, replies)
    \/ \E i \in Reqs : TaskInsert(i, TRUE)
    \/ \E i \in Reqs : TaskNotify(i, "ok", "200 sent")
    \/ \E pdf_id \in PdfIds : Analytics(pdf_id)

SpecLinks == InitLinks /\ [][NextLinks]_vars

(***************************************************************************)
(* The store of debug_app.py as the threads use it.  setup_database opens  *)
(* one connection with check_same_thread=False and every detached thread   *)
(* writes through it (self.conn), each with a cursor of its own and        *)
(* without a lock.  The statements of process_notifications are steps of   *)
(* their own here:                                                         *)
(*   - cursor.execute(INSERT) runs the statement on the connection, which  *)
(*     begins a transaction if none is open and records the id of the new  *)
(*     row as the last insert rowid of the connection;                     *)
(*   - cursor.execute then copies the last insert rowid of the connection  *)
(*     into cursor.lastrowid, which line 382 reads;                        *)
(*   - self.conn.commit() ends the transaction that is open, whoever       *)
(*     began it;                                                           *)
(*   - the sends, cursor.execute(UPDATE ... WHERE id = record_id) and the  *)
(*     second commit.                                                      *)
(* probe is the state of the shared connection.                            *)
(***************************************************************************)
Connection(last_insert_rowid, in_transaction) ==
    [fn |-> "connection", last_insert_rowid |-> last_insert_rowid,
     in_transaction |-> in_transaction]

\* The tracking request of the i-th recipient.
StoreRequest(i) ==
    Request("GET", "DOC1", "Client" \o ToString(i), <<>>, LocalAddr, NoBody)

\* Lines 366-379: the INSERT statement.
ConnInsert(i) ==
    /\ probe.fn = "connection"
    /\ task[i].pc = "insert"
    /\ rows' = Append(rows, NewRow(Len(rows) + 1, i, task[i]))
    /\ probe' = Connection(Len(rows) + 1, TRUE)
    /\ task' = [task EXCEPT ![i].pc = "lastrowid"]
    /\ log' = [log EXCEPT ![i] = Append(@, "INSERT")]
    /\ UNCHANGED <<app, env, nreq, inv, resp>>

\* The end of cursor.execute, and line 382: record_id = cursor.lastrowid.
ConnLastRowId(i) ==
    /\ probe.fn = "connection"
    /\ task[i].pc = "lastrowid"
    /\ task' = [task EXCEPT ![i].pc = "commit",
                            ![i].record_id = probe.last_insert_rowid]
    /\ UNCHANGED <<app, env, nreq, inv, resp, rows, log, probe>>

\* Line 380: self.conn.commit().
ConnCommit(i) ==
    /\ probe.fn = "connection"
    /\ task[i].pc = "commit"
    /\ probe' = [probe EXCEPT !.in_transaction = FALSE]
    /\ task' = [task EXCEPT ![i].pc = "update"]
    /\ UNCHANGED <<app, env, nreq, inv, resp, rows, log>>

\* Lines 384-396: both sends and the UPDATE statement.
ConnUpdate(i, smtp, chat) ==
    /\ probe.fn = "connection"
    /\ task[i].pc = "update"
    /\ LET email == PDFTracker_send_email_notification(
                        env, task[i].location_data, smtp)
           whatsapp == PDFTracker_send_whatsapp_notification(
                           env, task[i].location_data, chat)
       IN  /\ rows' = UpdateStatus(rows, task[i].record_id, email.status,
                                   whatsapp.status)
           /\ task' = [task EXCEPT ![i].pc = "commit2",
                                   ![i].email_status = email.status,
                                   ![i].whatsapp_status = whatsapp.status,
                                   ![i].smtp_reply = Heard(email, smtp),
                                   ![i].chat_reply = Heard(whatsapp, chat)]
           /\ log' = [log EXCEPT ![i] =
                         (Append(@, "send_email") \o email.calls)
                         \o (<<"send_whatsapp">> \o whatsapp.calls)
                         \o <<"UPDATE">>]
    /\ probe' = [probe EXCEPT !.in_transaction = TRUE]
    /\ UNCHANGED <<app, env, nreq, inv, resp>>

\* Line 397: self.conn.commit().
ConnCommit2(i) ==
    /\ probe.fn = "connection"
    /\ task[i].pc = "commit2"
    /\ probe' = [probe EXCEPT !.in_transaction = FALSE]
    /\ task' = [task EXCEPT ![i].pc = "done"]
    /\ UNCHANGED <<app, env, nreq, inv, resp, rows, log>>

InitStore ==
    /\ app = "debug_app"
    /\ env = EnvOf(TRUE, TRUE)
    /\ nreq = 0
    /\ inv = [i \in Reqs |-> NoInv]
    /\ task = [i \in Reqs |-> IdleTask]
    /\ resp = [i \in Reqs |-> "none"]
    /\ rows = <<>>
    /\ log = [i \in Reqs |-> <<>>]
    /\ probe = Connection(0, FALSE)

NextStore ==
    \/ \E i \in Reqs : Track(i, StoreRequest(i))
    \/ \E i \in Reqs, replies \in PipelineReplies : TaskResolve(i, replies)
    \/ \E i \in Reqs : ConnInsert(i)
    \/ \E i \in Reqs : ConnLastRowId(i)
    \/ \E i \in Reqs : ConnCommit(i)
    \/ \E i \in Reqs, smtp \in PipelineSmtpOutcomes, chat \in PipelineChatOutcomes :
          ConnUpdate(i, smtp, chat)
    \/ \E i \in Reqs : ConnCommit2(i)

SpecStore == InitStore /\ [][NextStore]_vars

(***************************************************************************)
(* POST /create-document and the way back.  create_document takes pdf_id   *)
(* and client_name from the JSON body as they are and formats them into    *)
(* the tracking URL; the client that opens the URL percent-encodes what a  *)
(* URL cannot hold (a space); the server splits the path at its slashes,   *)
(* matches the segments against the route /track-pdf/<pdf_id>/<client_name>*)
(* and decodes them.  A text is the sequence of its characters, of which   *)
(* the model has a letter, the space and the slash; the literal parts of a *)
(* path ("track-pdf", "analytics") and the escape "%20" are one element.   *)
(***************************************************************************)
MaxLabel == 3

Chars == {"a", " ", "/"}

RECURSIVE Texts(_)
Texts(n) == IF n = 0 THEN {<<>>}
            ELSE {Append(t, c) : t \in Texts(n - 1), c \in Chars}

\* The labels a caller passes: texts of 1 to MaxLabel characters.
Labels == UNION {Texts(n) : n \in 1..MaxLabel}

\* Line 481: the path of tracking_url (the part after base_url).
TrackingPath(pdf_id, client_name) ==
    <<"/", "track-pdf", "/">> \o pdf_id \o <<"/">> \o client_name

\* The path of GET /analytics/<pdf_id> as a caller writes it.
AnalyticsPath(pdf_id) == <<"/", "analytics", "/">> \o pdf_id

\* What the browser (img src, fetch) sends for a path, and how the server
\* reads a segment.
Quote(path) == [k \in 1..Len(path) |-> IF path[k] = " " THEN "%20" ELSE path[k]]
Unquote(seg) == [k \in 1..Len(seg) |-> IF seg[k] = "%20" THEN " " ELSE seg[k]]

\* str.split('/') of a path.
RECURSIVE Split(_)
Split(path) ==
    IF path = <<>> THEN << <<>> >>
    ELSE IF Head(path) = "/" THEN << <<>> >> \o Split(Tail(path))
    ELSE LET rest == Split(Tail(path))
         IN  << <<Head(path)>> \o Head(rest) >> \o Tail(rest)

\* The route /track-pdf/<pdf_id>/<client_name>: both parameters are
\* non-empty segments without a slash.
RouteTrack(path) ==
    LET segs == Split(path) IN
    IF /\ Len(segs) = 4
       /\ segs[1] = <<>>
       /\ segs[2] = <<"track-pdf">>
       /\ segs[3] # <<>>
       /\ segs[4] # <<>>
    THEN [matched |-> TRUE, pdf_id |-> Unquote(segs[3]),
          client_name |-> Unquote(segs[4])]
    ELSE [matched |-> FALSE, pdf_id |-> <<>>, client_name |-> <<>>]

\* The route /analytics/<pdf_id>.
RouteAnalytics(path) ==
    LET segs == Split(path) IN
    IF /\ Len(segs) = 3
       /\ segs[1] = <<>>
       /\ segs[2] = <<"analytics">>
       /\ segs[3] # <<>>
    THEN [matched |-> TRUE, pdf_id |-> Unquote(segs[3])]
    ELSE [matched |-> FALSE, pdf_id |-> <<>>]

NoAnswer == [status |-> "none", pdf_id |-> <<>>, total_opens |-> 0, clients |-> <<>>]

\* create_document, lines 469-481 and 720-724.
CreateDocument ==
    /\ probe.fn = "create_document"
    /\ probe.tracking_url = <<>>
    /\ probe' = [probe EXCEPT
                    !.tracking_url = TrackingPath(probe.pdf_id, probe.client_name)]
    /\ UNCHANGED <<app, env, nreq, inv, task, resp, rows, log>>

\* The recipient opens the document: a GET of tracking_url, which the
\* server routes to track_pdf_access or answers with 404.
OpenDocument(i) ==
    /\ probe.fn = "create_document"
    /\ probe.tracking_url # <<>>
    /\ nreq = 0
    /\ LET route == RouteTrack(Quote(probe.tracking_url)) IN
       IF route.matched
       THEN Track(i, Request("GET", route.pdf_id, route.client_name, <<>>,
                             LocalAddr, NoBody))
       ELSE /\ i = 1
            /\ nreq' = 1
            /\ resp' = [resp EXCEPT ![i] = "404"]
            /\ task' = [task EXCEPT ![i].pc = "done"]
            /\ UNCHANGED <<app, env, inv, rows, log, probe>>

\* The sender asks for the analytics of the document, after the task of
\* the invocation has ended.
ReadAnalytics ==
    /\ probe.fn = "create_document"
    /\ nreq = 1
    /\ task[1].pc = "done"
    /\ LET route == RouteAnalytics(Quote(AnalyticsPath(probe.pdf_id))) IN
       IF route.matched
       THEN \E o \in Fetched(rows, route.pdf_id) :
               probe' = [probe EXCEPT
                            !.answer = [status |-> "200", pdf_id |-> route.pdf_id,
                                        total_opens |-> Len(o),
                                        clients |-> [k \in 1..Len(o) |->
                                                       rows[o[k]].client_name]]]
       ELSE probe' = [probe EXCEPT !.answer = [NoAnswer EXCEPT !.status = "404"]]
    /\ UNCHANGED <<app, env, nreq, inv, task, resp, rows, log>>

InitRound ==
    /\ app = "debug_app"
    /\ env = EnvOf(FALSE, FALSE)
    /\ nreq = 0
    /\ inv = [i \in Reqs |-> NoInv]
    /\ task = [i \in Reqs |-> IdleTask]
    /\ resp = [i \in Reqs |-> "none"]
    /\ rows = <<>>
    /\ log = [i \in Reqs |-> <<>>]
    /\ probe \in {[fn |-> "create_document", pdf_id |-> d, client_name |-> c,
                   tracking_url |-> <<>>, answer |-> NoAnswer] :
                     d \in Labels, c \in Labels}

NextRound ==
    \/ CreateDocument
    \/ \E i \in Reqs : OpenDocument(i)
    \/ \E i \in Reqs, replies \in PipelineReplies : TaskResolve(i, replies)
    \/ \E i \in Reqs : TaskInsert(i, TRUE)
    \/ \E i \in Reqs : TaskNotify(i, "ok", "200 sent")
    \/ ReadAnalytics

SpecRound == InitRound /\ [][NextRound]_vars

(***************************************************************************)
(* The location resolvers as functions: one call of get_accurate_location  *)
(* (debug_app.py) or get_geo_info (app.py, debud_app.py) on an address and *)
(* the replies of the providers.                                           *)
(***************************************************************************)
Addresses ==
    {<<"127", "0", "0", "1">>, <<"127", "0", "0", "2">>, <<"127", "255", "0", "9">>,
     <<"10", "1", "2", "3">>, <<"100", "1", "2", "3">>,
     <<"192", "168", "1", "5">>, <<"192", "169", "1", "5">>,
     <<"172", "16", "0", "1">>, <<"172", "31", "255", "255">>,
     <<"172", "15", "0", "1">>, <<"172", "32", "0", "1">>,
     <<"8", "8", "8", "8">>, <<"0", "0", "0", "0">>, <<"localhost">>}

ReplyKinds == {"exc", "500", "full", "city", "empty", "null", "latonly", "zero"}

\* The reply of kind `kind` of provider number k ("1", "2", "3").
MkReply(kind, k) ==
    CASE kind = "exc" -> ReplyFail
      [] kind = "500" ->
            Reply("500", Absent, Absent, Absent, Absent, Absent, <<Absent>>)
      [] kind = "full" -> ReplyFull(k)
      [] kind = "city" ->
            Reply("200", "Country" \o k, "City" \o k, "Region" \o k,
                  Absent, Absent, <<Absent>>)
      [] kind = "empty" ->
            Reply("200", Absent, Absent, Absent, Absent, Absent, <<Absent>>)
      [] kind = "null" ->
            Reply("200", Null, Null, Null, Null, Null, <<Null>>)
      [] kind = "latonly" ->
            Reply("200", "Country" \o k, "City" \o k, "Region" \o k,
                  "51.5", Absent, <<"51.5">>)
      [] kind = "zero" ->
            Reply("200", "Country" \o k, "City" \o k, "Region" \o k,
                  "0", "0", <<"0", "0">>)

ReplyTriples ==
    {<<MkReply(k1, "1"), MkReply(k2, "2"), MkReply(k3, "3")>> :
        k1 \in ReplyKinds, k2 \in ReplyKinds, k3 \in ReplyKinds}

Resolvers == {"get_accurate_location", "get_geo_info"}

NotResolved == [country |-> None, city |-> None]

InitLoc ==
    /\ app = "debug_app"
    /\ env = EnvOf(FALSE, FALSE)
    /\ nreq = 0
    /\ inv = [i \in Reqs |-> NoInv]
    /\ task = [i \in Reqs |-> IdleTask]
    /\ resp = [i \in Reqs |-> "none"]
    /\ rows = <<>>
    /\ log = [i \in Reqs |-> <<>>]
    /\ probe \in {[fn |-> f, ip |-> ip, replies |-> rs, done |-> FALSE,
                   result |-> NotResolved, calls |-> <<>>] :
                     f \in Resolvers, ip \in Addresses, rs \in ReplyTriples}

Resolve ==
    /\ probe.fn \in Resolvers
    /\ ~probe.done
    /\ probe' =
          IF probe.fn = "get_accurate_location"
          THEN [probe EXCEPT
                   !.done = TRUE,
                   !.result = get_accurate_location(probe.ip, probe.replies),
                   !.calls = get_accurate_location_calls(probe.ip)]
          ELSE [probe EXCEPT
                   !.done = TRUE,
                   !.result = get_geo_info(probe.ip, probe.replies),
                   !.calls = get_geo_info_calls(probe.ip)]
    /\ UNCHANGED <<app, env, nreq, inv, task, resp, rows, log>>

NextLoc == Resolve

SpecLoc == InitLoc /\ [][NextLoc]_vars

(***************************************************************************)
(* The send operations as functions: one call of send_email_notification   *)
(* or send_whatsapp_notification of the running application, under any     *)
(* configuration and any outcome of its outbound call.                     *)
(***************************************************************************)
EnvValues == {Absent, "", "x"}
AllEnvs == [EnvNames -> EnvValues]

Senders == {"send_email_notification", "send_whatsapp_notification"}

\* The location handed to the send operations of debug_app.py.
ProbeLocation ==
    [DefaultLocation(PublicAddr) EXCEPT !.latitude = "51.5", !.longitude = "7.4",
                                        !.accuracy = AccuracyCoords]

SendEmailOf(a, e, location_data, outcome) ==
    IF a = "debug_app"
    THEN PDFTracker_send_email_notification(e, location_data, outcome)
    ELSE SyncSendEmail(a, e, outcome)

SendWhatsappOf(a, e, location_data, outcome) ==
    IF a = "debug_app"
    THEN PDFTracker_send_whatsapp_notification(e, location_data, outcome)
    ELSE SyncSendWhatsapp(a, e, outcome)

InitSend ==
    /\ app \in Apps
    /\ env \in AllEnvs
    /\ nreq = 0
    /\ inv = [i \in Reqs |-> NoInv]
    /\ task = [i \in Reqs |-> IdleTask]
    /\ resp = [i \in Reqs |-> "none"]
    /\ rows = <<>>
    /\ log = [i \in Reqs |-> <<>>]
    /\ probe \in {[fn |-> f, outcome |-> o, done |-> FALSE,
                   status |-> None, calls |-> <<>>] :
                     f \in Senders, o \in SmtpOutcomes \cup ChatOutcomes}
    /\ probe.fn = "send_email_notification" <=> probe.outcome \in SmtpOutcomes

SendEmail ==
    /\ probe.fn = "send_email_notification"
    /\ ~probe.done
    /\ LET r == SendEmailOf(app, env, ProbeLocation, probe.outcome)
       IN  probe' = [probe EXCEPT !.done = TRUE, !.status = r.status,
                                  !.calls = r.calls]
    /\ UNCHANGED <<app, env, nreq, inv, task, resp, rows, log>>

SendWhatsapp ==
    /\ probe.fn = "send_whatsapp_notification"
    /\ ~probe.done
    /\ LET r == SendWhatsappOf(app, env, ProbeLocation, probe.outcome)
       IN  probe' = [probe EXCEPT !.done = TRUE, !.status = r.status,
                                  !.calls = r.calls]
    /\ UNCHANGED <<app, env, nreq, inv, task, resp, rows, log>>

NextSend == SendEmail \/ SendWhatsapp

SpecSend == InitSend /\ [][NextSend]_vars

(***************************************************************************)
(* Vocabulary of the properties.                                           *)
(***************************************************************************)
ProviderCalls ==
    {"GET ipapi.co", "GET ipinfo.io", "GET geoplugin.net", "SMTP", "POST ultramsg"}

ChannelCalls == {"SMTP", "POST ultramsg"}

\* The positions of entry x in the sequence s.
Positions(s, x) == {k \in 1..Len(s) : s[k] = x}

Occurs(s, x) == Positions(s, x) # {}

\* Every x of s comes before every y of s.
Precedes(s, x, y) == \A j \in Positions(s, x), k \in Positions(s, y) : j < k

Received == 1..nreq

\* The private and loopback ranges: 10.0.0.0/8, 172.16.0.0/12,
\* 192.168.0.0/16 and 127.0.0.0/8.
SecondOctets16to31 ==
    {"16", "17", "18", "19", "20", "21", "22", "23",
     "24", "25", "26", "27", "28", "29", "30", "31"}

IsIPv4(ip) == Len(ip) = 4

InPrivateRange(ip) ==
    /\ IsIPv4(ip)
    /\ \/ ip[1] = "10"
       \/ ip[1] = "172" /\ ip[2] \in SecondOctets16to31
       \/ ip[1] = "192" /\ ip[2] = "168"
       \/ ip[1] = "127"

\* The local-network sentinel; debug_app.py spells its country "Local Network".
IsSentinel(loc) == loc.city = "Internal" /\ loc.country \in {"Local", "Local Network"}

\* The chain of invocation i has run to its end.
Finished(i) == task[i].pc = "done"

\* The row the chain of invocation i inserted, if it inserted one.
HasRow(i) == task[i].record_id \in 1..Len(rows)
RowOf(i) == rows[task[i].record_id]

\* The statuses of the row of invocation i are final: debug_app.py writes
\* them with the UPDATE, the other two with the INSERT.
StatusesWritten(i) ==
    /\ HasRow(i)
    /\ app = "debug_app" => Finished(i)

IsError(status) == status \notin {"processing", "not_configured", "sent"}

(***************************************************************************)
(* C1.  The response of a tracking invocation never follows a provider     *)
(* call of the chain of that invocation: the handler does not wait for     *)
(* the location lookup or the notifications.  track_pdf_access of app.py   *)
(* (and of debud_app.py) responds after record_access has returned.        *)
(***************************************************************************)
C1_ResponseDoesNotWait ==
    \A i \in Received :
        \A k \in Positions(log[i], "RESPOND") :
            \A j \in 1..(k - 1) : log[i][j] \notin ProviderCalls

(***************************************************************************)
(* C2.  For every event the INSERT comes before both send attempts, and    *)
(* both send attempts come before the final UPDATE; a send is attempted    *)
(* only for an event that is stored.  record_access of app.py sends both   *)
(* notifications first and inserts afterwards.                             *)
(***************************************************************************)
C2_InsertThenSendsThenUpdate ==
    \A i \in Received :
        /\ Precedes(log[i], "INSERT", "send_email")
        /\ Precedes(log[i], "INSERT", "send_whatsapp")
        /\ Precedes(log[i], "send_email", "UPDATE")
        /\ Precedes(log[i], "send_whatsapp", "UPDATE")
        /\ (Occurs(log[i], "send_email") \/ Occurs(log[i], "send_whatsapp"))
               => Occurs(log[i], "INSERT")

(***************************************************************************)
(* C3.  Channel independence: for every event whose row was inserted and   *)
(* whose statuses are written, both sends were attempted, and the status   *)
(* recorded for each channel is the one its own send returns for its own   *)
(* configuration and the reply of its own provider, whatever the other     *)
(* channel did.                                                            *)
(***************************************************************************)
C3_ChannelsIndependent ==
    \A i \in Received :
        StatusesWritten(i) =>
            /\ Occurs(log[i], "send_email")
            /\ Occurs(log[i], "send_whatsapp")
            /\ RowOf(i).email_status =
                   SendEmailOf(app, env, task[i].location_data,
                               task[i].smtp_reply).status
            /\ RowOf(i).whatsapp_status =
                   SendWhatsappOf(app, env, task[i].location_data,
                                  task[i].chat_reply).status
            /\ TruthyStr(GetenvOrNone(env, "EMAIL_FROM"))
                   => Cardinality(Positions(log[i], "SMTP")) = 1
            /\ TruthyStr(GetenvOrNone(env, "WHATSAPP_TOKEN"))
                   => Cardinality(Positions(log[i], "POST ultramsg")) = 1

\* One event with a failed email and a delivered chat message, another with
\* a delivered email and a failed chat message.
C3_Witness ==
    \E i \in Received, j \in Received :
        /\ StatusesWritten(i) /\ StatusesWritten(j)
        /\ IsError(RowOf(i).email_status) /\ RowOf(i).whatsapp_status = "sent"
        /\ RowOf(j).email_status = "sent" /\ IsError(RowOf(j).whatsapp_status)

(***************************************************************************)
(* C4.  Every tracking invocation inserts exactly one row: once the chain  *)
(* of an invocation has finished (the store having refused no write), the  *)
(* table holds exactly one row with the id of that invocation, ids are     *)
(* distinct, and there are as many rows as finished invocations.           *)
(* process_notifications of debug_app.py dies before its INSERT when the   *)
(* POST body is a JSON value such as a list.                               *)
(***************************************************************************)
C4_OneRowPerInvocation ==
    /\ \A i \in Received :
          (Finished(i) /\ ~Occurs(log[i], "INSERT failed"))
              => /\ Cardinality({k \in 1..Len(rows) :
                                    rows[k].id = task[i].record_id}) = 1
                 /\ RowOf(i).pdf_id = inv[i].pdf_id
                 /\ RowOf(i).client_name = inv[i].client_name
    /\ \A j \in 1..Len(rows), k \in 1..Len(rows) : rows[j].id = rows[k].id => j = k
    /\ Len(rows) <= nreq

(***************************************************************************)
(* C5.  Once a row is inserted the only write to it is the status update   *)
(* of its own chain: a step changes at most one existing row, changes only *)
(* email_status and whatsapp_status of it (so pdf_id and access_time stay  *)
(* as inserted), and removes no row.                                       *)
(***************************************************************************)
C5_RowsKeepIdentity ==
    [][/\ Len(rows') >= Len(rows)
       /\ \A k \in 1..Len(rows) :
             /\ [rows'[k] EXCEPT !.email_status = rows[k].email_status,
                                 !.whatsapp_status = rows[k].whatsapp_status]
                    = rows[k]
             /\ rows'[k] # rows[k] =>
                    \E i \in Received :
                        /\ task[i].record_id = k
                        /\ task[i].pc = "notify"
                        /\ task'[i].pc = "done"
       /\ Cardinality({k \in 1..Len(rows) : rows'[k] # rows[k]}) <= 1]_vars

\* Two rows of the same document: the second has had its status update,
\* the first is still as inserted.
C5_Witness ==
    /\ Len(rows) = 2
    /\ rows[1].pdf_id = rows[2].pdf_id
    /\ rows[1].email_status = "processing"
    /\ rows[2].email_status # "processing"

NothingConfigured(e) == \A n \in EnvNames : ~TruthyStr(GetenvOrNone(e, n))

C7_NothingConfigured ==
    NothingConfigured(env) =>
        \A i \in Received :
            /\ \A k \in 1..Len(log[i]) : log[i][k] \notin ChannelCalls
            /\ StatusesWritten(i) =>
                   /\ RowOf(i).email_status = "not_configured"
                   /\ RowOf(i).whatsapp_status = "not_configured"

(***************************************************************************)
(* C8.  Per channel: when any required item of a channel is missing        *)
(* (email: sender, password or recipient; chat: instance id, token or      *)
(* number), its send returns not_configured and makes no call, whatever    *)
(* the configuration of the other channel.  debug_app.py sends without a   *)
(* recipient, and debud_app.py returns "config_error: ...".                *)
(***************************************************************************)
Missing(e, names) == \E n \in names : ~TruthyStr(GetenvOrNone(e, n))

C8_MissingItemNotConfigured ==
    /\ (/\ probe.fn = "send_email_notification"
        /\ probe.done
        /\ Missing(env, {"EMAIL_FROM", "EMAIL_PASSWORD", "EMAIL_TO"}))
           => (probe.status = "not_configured" /\ probe.calls = <<>>)
    /\ (/\ probe.fn = "send_whatsapp_notification"
        /\ probe.done
        /\ Missing(env, {"WHATSAPP_INSTANCE_ID", "WHATSAPP_TOKEN",
                         "WHATSAPP_TO_NUMBER"}))
           => (probe.status = "not_configured" /\ probe.calls = <<>>)

(***************************************************************************)
(* C9.  For every address in a private or loopback range the resolver      *)
(* returns the local-network sentinel and calls no geolocation provider.   *)
(* get_accurate_location skips only "127.0.0.1" of the loopback range.     *)
(***************************************************************************)
C9_PrivateIsSentinel ==
    (probe.fn \in Resolvers /\ probe.done /\ InPrivateRange(probe.ip))
        => (IsSentinel(probe.result) /\ probe.calls = <<>>)

(***************************************************************************)
(* C10.  For every IPv4 address outside the private and loopback ranges    *)
(* the resolver does not return the sentinel and queries the providers.    *)
(* Both resolvers take every address starting with "172." as local, so     *)
(* 172.32.0.1 and 172.15.0.1 get the sentinel.  The statement is made for  *)
(* the addresses a host can have, which leaves out the block 0.0.0.0/8.    *)
(***************************************************************************)
C10_PublicIsResolved ==
    (probe.fn \in Resolvers /\ probe.done /\ IsIPv4(probe.ip)
                            /\ ~InPrivateRange(probe.ip) /\ probe.ip[1] # "0")
        => (~IsSentinel(probe.result) /\ probe.calls # <<>>)

(***************************************************************************)
(* Vocabulary of the claims about the location of an event.                *)
(***************************************************************************)
\* The body of a POST carries a reading with a valid latitude and
\* longitude: an object whose two coordinates are numbers.
IsNumber(v) == v \in Numerals
HasValidReading(gps_data) ==
    /\ gps_data.kind = "object"
    /\ IsNumber(gps_data.latitude)
    /\ IsNumber(gps_data.longitude)

\* The column gps_source spells the source gps as 'browser_gps'.
IsGpsRow(row) == row.gps_source = "browser_gps"

(***************************************************************************)
(* C11.  If the POST of an invocation carries a reading with a valid       *)
(* latitude and longitude, zero included, the row of its event has the     *)
(* source gps and exactly the latitude and longitude of the reading.       *)
(* process_notifications tests the truth of the two coordinates, so a      *)
(* reading with latitude 0 or longitude 0 is dropped for the IP location.  *)
(***************************************************************************)
C11_GpsReadingIsPersisted ==
    \A i \in Received :
        (HasRow(i) /\ inv[i].method = "POST" /\ HasValidReading(inv[i].gps_data))
            => /\ IsGpsRow(RowOf(i))
               /\ RowOf(i).latitude = inv[i].gps_data.latitude
               /\ RowOf(i).longitude = inv[i].gps_data.longitude

(***************************************************************************)
(* C12.  The accuracy of a GPS-sourced row is the accuracy the client      *)
(* reported, clamped to a ceiling: no GPS row has an accuracy above the    *)
(* ceiling, and a reported accuracy at or below it is stored unchanged.    *)
(* The code has no ceiling at all: process_notifications stores            *)
(* gps_data.get('accuracy', 50) as it is.  The ceiling of the statement is *)
(* the coarsest accuracy the program itself assigns to a location, that of *)
(* the local-network sentinel; the reading of CoarseBody is above it, as   *)
(* a reading can be above any other ceiling.                               *)
(***************************************************************************)
GpsAccuracyCeiling == AccuracyLocal

C12_GpsAccuracyIsClamped ==
    \A i \in Received :
        (HasRow(i) /\ IsGpsRow(RowOf(i)) /\ inv[i].gps_data.accuracy # <<>>)
            => LET reported == inv[i].gps_data.accuracy[1] IN
               /\ RowOf(i).accuracy <= GpsAccuracyCeiling
               /\ reported <= GpsAccuracyCeiling => RowOf(i).accuracy = reported

(***************************************************************************)
(* Vocabulary of the claims about get_accurate_location: the results of    *)
(* the three providers for the lookup of the call in progress, in priority *)
(* order, and what a result yields.  A result supplies a coordinate when   *)
(* it holds a number other than 0: _try_ipapi and _try_geoplugin turn a 0  *)
(* of the provider into None (`float(...) or None`), and the selection     *)
(* loop reads a 0 of ipinfo the same way.                                  *)
(***************************************************************************)
ProbeResults ==
    <<try_ipapi(probe.replies[1]), try_ipinfo(probe.replies[2]),
      try_geoplugin(probe.replies[3])>>

SuppliesCoordinates(result) ==
    /\ result.some
    /\ result.latitude \notin {None, "0"}
    /\ result.longitude \notin {None, "0"}

\* The result names a city: a string, and not the default "Unknown".
YieldsCity(result) == result.some /\ result.city \notin {"Unknown", None}

\* get_accurate_location has answered for an address it looks up.
LookedUp ==
    /\ probe.fn = "get_accurate_location"
    /\ probe.done
    /\ probe.calls # <<>>

\* The first provider, in priority order, whose result supplies coordinates,
\* and the first that yields a city (0 if there is none).
FirstCoordinates ==
    IF \E k \in 1..3 : SuppliesCoordinates(ProbeResults[k])
    THEN CHOOSE k \in 1..3 :
             /\ SuppliesCoordinates(ProbeResults[k])
             /\ \A j \in 1..(k - 1) : ~SuppliesCoordinates(ProbeResults[j])
    ELSE 0

FirstCity ==
    IF \E k \in 1..3 : YieldsCity(ProbeResults[k])
    THEN CHOOSE k \in 1..3 :
             /\ YieldsCity(ProbeResults[k])
             /\ \A j \in 1..(k - 1) : ~YieldsCity(ProbeResults[j])
    ELSE 0

C14_FirstProviderWithCity ==
    (LookedUp /\ FirstCoordinates = 0 /\ FirstCity # 0)
        => /\ probe.result.city = ProbeResults[FirstCity].city
           /\ probe.result.country = ProbeResults[FirstCity].country
           /\ probe.result.accuracy > AccuracyCoords

(***************************************************************************)
(* C15.  The source of a location record tells the cases apart: it is      *)
(* local-network exactly for the sentinel of a local address, and when no  *)
(* provider yields anything for an address that is looked up the record is *)
(* country = city = region = "Unknown" without coordinates, with source    *)
(* unavailable and the large default accuracy.  get_accurate_location      *)
(* writes the one source 'ip_geolocation' into every record it returns     *)
(* (the column gps_source has the second value 'browser_gps' for a GPS     *)
(* reading), so neither the sentinel nor the unknown record is marked.     *)
(* SourceOf reads the two spellings of the code as the names of the        *)
(* statement.                                                              *)
(***************************************************************************)
SourceOf(loc) ==
    CASE loc.gps_source = "browser_gps" -> "gps"
      [] loc.gps_source = "ip_geolocation" -> "ip-geolocation"
      [] OTHER -> loc.gps_source

NothingYielded == \A k \in 1..3 : ~ProbeResults[k].some

C15_SourceTellsCasesApart ==
    (probe.fn = "get_accurate_location" /\ probe.done)
        => /\ SourceOf(probe.result) \in
                  {"gps", "ip-geolocation", "local-network", "unavailable"}
           /\ SourceOf(probe.result) = "local-network" <=> IsSentinel(probe.result)
           /\ (probe.calls # <<>> /\ NothingYielded)
                  => /\ probe.result.country = "Unknown"
                     /\ probe.result.city = "Unknown"
                     /\ probe.result.region = "Unknown"
                     /\ probe.result.latitude = None
                     /\ probe.result.longitude = None
                     /\ SourceOf(probe.result) = "unavailable"
                     /\ probe.result.accuracy > AccuracyCity

(***************************************************************************)
(* C16.  Whatever the address and whatever the providers answer (timeout   *)
(* or transport error, a status other than 200, a 200 whose fields are     *)
(* missing or null), the resolver returns a record whose country, city and *)
(* region are strings, "Unknown" when not known; only latitude and         *)
(* longitude may be None.  The resolvers read the fields with              *)
(* data.get(key, 'Unknown'), which returns None for a key that is present  *)
(* with the value null, and copy that None into the record.                *)
(***************************************************************************)
C16_RecordIsFullyPopulated ==
    /\ (probe.fn = "get_accurate_location" /\ probe.done)
           => /\ probe.result.country # None
              /\ probe.result.city # None
              /\ probe.result.region # None
    /\ (probe.fn = "get_geo_info" /\ probe.done)
           => /\ probe.result.country # None
              /\ probe.result.city # None

(***************************************************************************)
(* C17.  A failure of the provider of a channel (the SMTP conversation     *)
(* ends in an exception; the POST to the chat API raises, or is answered   *)
(* with a status other than 200, with a body that is no JSON or with a     *)
(* body that does not say sent) becomes an error status of that channel in *)
(* the row of the event, and does not end the detached task: a task that   *)
(* has inserted its row and has finished has made both sends and the       *)
(* UPDATE.                                                                 *)
(***************************************************************************)
SmtpFailed(i) == task[i].smtp_reply \notin {None, "ok"}
ChatFailed(i) == task[i].chat_reply \notin {None, "200 sent"}

C18_FailedInsertSkipsNotifications ==
    \A i \in Received :
        (Finished(i) /\ Occurs(log[i], "INSERT failed"))
            => /\ resp[i] = Response(inv[i].method)
               /\ ~Occurs(log[i], "send_email")
               /\ ~Occurs(log[i], "send_whatsapp")
               /\ \A k \in 1..Len(log[i]) : log[i][k] \notin ChannelCalls

(***************************************************************************)
(* C19.  The response of a tracking invocation does not depend on what     *)
(* happens downstream: whatever the location lookup, the INSERT and the    *)
(* two sends come to, a GET is answered with the 1x1 image and a POST with *)
(* the acknowledgement, never with an error.  track_pdf_access of app.py   *)
(* (and of debud_app.py) answers with the result of record_access: the     *)
(* image if it returned True, "Tracking Error" with status 500 if not.     *)
(***************************************************************************)
C19_ResponseIsFixed ==
    \A i \in Received :
        resp[i] # "none" => resp[i] = Response(inv[i].method)

(***************************************************************************)
(* C20.  A POST whose body gives no reading (no body or no JSON, a JSON    *)
(* value that is no object, an object without latitude or longitude or     *)
(* with a coordinate that is no number) is handled as a request without    *)
(* GPS: it is acknowledged, and once its task has finished (the store      *)
(* having refused no write) there is a row for it whose location is the    *)
(* one resolved from the IP address, with a source other than gps.         *)
(* process_notifications calls gps_data.get on whatever get_json()         *)
(* returned: for a list or a number that raises and the task ends without  *)
(* a row; and it takes any true value for a coordinate, so an object with  *)
(* text for a latitude is stored as a GPS reading.                         *)
(***************************************************************************)
IsMalformed(gps_data) ==
    \/ gps_data.kind \in {"none", "list"}
    \/ /\ gps_data.kind = "object"
       /\ \/ gps_data.latitude \in {Absent, Null}
          \/ gps_data.longitude \in {Absent, Null}
          \/ ~IsNumber(gps_data.latitude)
          \/ ~IsNumber(gps_data.longitude)

C20_MalformedBodyMeansNoGps ==
    \A i \in Received :
        (/\ inv[i].method = "POST"
         /\ IsMalformed(inv[i].gps_data)
         /\ Finished(i)
         /\ ~Occurs(log[i], "INSERT failed"))
            => /\ resp[i] = "200 ack"
               /\ HasRow(i)
               /\ ~IsGpsRow(RowOf(i))
               /\ \E replies \in PipelineReplies :
                     LET loc == get_accurate_location(inv[i].ip_address, replies)
                     IN  /\ RowOf(i).country = loc.country
                         /\ RowOf(i).city = loc.city
                         /\ RowOf(i).latitude = loc.latitude
                         /\ RowOf(i).longitude = loc.longitude

(***************************************************************************)
(* C21.  For every event each channel is attempted at most once: the task  *)
(* calls each send operation at most once, and a send operation makes at   *)
(* most one call to its provider, also when that call fails.               *)
(***************************************************************************)
Count(s, x) == Cardinality(Positions(s, x))

C21_AtMostOneAttempt ==
    \A i \in Received :
        /\ Count(log[i], "send_email") <= 1
        /\ Count(log[i], "send_whatsapp") <= 1
        /\ Count(log[i], "SMTP") <= 1
        /\ Count(log[i], "POST ultramsg") <= 1

\* A finished event both of whose sends failed: one SMTP conversation and
\* one POST were made for it.
C21_Witness ==
    \E i \in Received :
        /\ Finished(i) /\ HasRow(i)
        /\ SmtpFailed(i) /\ ChatFailed(i)
        /\ Count(log[i], "SMTP") = 1
        /\ Count(log[i], "POST ultramsg") = 1
        /\ Count(log[i], "send_email") = 1
        /\ Count(log[i], "send_whatsapp") = 1

(***************************************************************************)
(* C22.  No detached task hangs: under the fair scheduler, every           *)
(* invocation that was received has a task that eventually finishes, and   *)
(* from then on the row of its event, if the task inserted one, has both   *)
(* channel statuses at a terminal value, not at 'processing'.              *)
(***************************************************************************)
Settled(i) ==
    /\ Finished(i)
    /\ HasRow(i) => /\ RowOf(i).email_status # "processing"
                    /\ RowOf(i).whatsapp_status # "processing"

AnalyticsAnswered == probe' # probe /\ probe'.fn = "analytics"

\* The positions in an answer of the entry of row number id.
EntriesOf(answer, id) ==
    {k \in 1..Len(answer.rowids) : answer.rowids[k] = id}

C26_AllAndOnlyMostRecentFirst ==
    [][AnalyticsAnswered =>
          LET n == Len(probe'.accesses) IN
          /\ Len(probe'.rowids) = n
          /\ \A j \in 1..Len(rows) :
                Cardinality(EntriesOf(probe', rows[j].id)) =
                    IF rows[j].pdf_id = probe'.pdf_id THEN 1 ELSE 0
          /\ \A k \in 1..n :
                \E j \in 1..Len(rows) :
                    /\ rows[j].id = probe'.rowids[k]
                    /\ probe'.accesses[k] = Access(rows[j])
          /\ \A j \in 1..n, k \in 1..n :
                j < k => probe'.accesses[j].access_time
                             >= probe'.accesses[k].access_time
          /\ probe'.total_opens =
                 Cardinality({j \in 1..Len(rows) : rows[j].pdf_id = probe'.pdf_id})
      ]_vars

\* An answer with two events of one document stamped at different times,
\* the later one first, while the table also holds an event of the other
\* document.
C26_Witness ==
    /\ probe.fn = "analytics"
    /\ probe.total_opens = 2
    /\ probe.accesses[1].access_time > probe.accesses[2].access_time
    /\ \E j \in 1..Len(rows) : rows[j].pdf_id # probe.pdf_id
    /\ \A k \in 1..2 : \E j \in 1..Len(rows) :
          rows[j].id = probe.rowids[k] /\ rows[j].pdf_id = probe.pdf_id

(***************************************************************************)
(* C24.  Store writes are safe when several documents are opened at once:  *)
(* however the statements of the tasks interleave on the shared            *)
(* connection, every task that has finished has inserted exactly one row   *)
(* (the row of its recipient), holds the id of that row, and that row      *)
(* shows the two statuses the sends of this task returned: the outcome is  *)
(* that of running the tasks one after the other.  The threads share one   *)
(* connection without any lock, and the id a task reads after its INSERT   *)
(* is the last insert rowid of the connection: when another task inserts   *)
(* in between, the task takes the row of the other task for its own and    *)
(* its UPDATE overwrites the statuses of that row, while its own row stays *)
(* at 'processing'.                                                        *)
(***************************************************************************)
OwnRows(i) == {k \in 1..Len(rows) : rows[k].client_name = inv[i].client_name}

C24_WritesAreSerialized ==
    \A i \in Received :
        Finished(i) =>
            /\ Cardinality(OwnRows(i)) = 1
            /\ \A k \in OwnRows(i) :
                  /\ rows[k].id = task[i].record_id
                  /\ rows[k].email_status = task[i].email_status
                  /\ rows[k].whatsapp_status = task[i].whatsapp_status

(***************************************************************************)
(* C25.  Round trip: for every document id and recipient label that        *)
(* /create-document accepts, labels with a space or a slash included,      *)
(* opening the tracking URL it returned records exactly one event, and     *)
(* /analytics/<document id> then shows one event with that document id     *)
(* and that recipient label.  create_document writes the two texts into    *)
(* the URL as they are, so a slash in either of them adds a segment to the *)
(* path, which the route of track_pdf_access does not match: the request   *)
(* is answered with 404 and no event is recorded.                          *)
(***************************************************************************)
C25_RoundTrip ==
    (probe.fn = "create_document" /\ probe.answer.status # "none")
        => /\ resp[1] = "200 pixel"
           /\ Len(rows) = 1
           /\ probe.answer.status = "200"
           /\ probe.answer.pdf_id = probe.pdf_id
           /\ probe.answer.total_opens = 1
           /\ probe.answer.clients = <<probe.client_name>>

(***************************************************************************)
(* C27: opened_at (column access_time) of an event is the server time at   *)
(* which its tracking invocation was received by the handler, not a later  *)
(* time; so if invocation i is received before invocation j, the           *)
(* access_time of i is not later than that of j, whatever the durations of *)
(* the location lookups.  The clock of the model counts the invocations    *)
(* received, so invocation i is received at time i.  Stated of            *)
(* debug_app.py, whose handler and detached chain the statement is about.  *)
(***************************************************************************)
CaptureTime(i) == i

C27_OpenedAtIsCaptureTime ==
    \A i \in Received :
        (app = "debug_app" /\ HasRow(i)) =>
            /\ RowOf(i).access_time = CaptureTime(i)
            /\ \A j \in Received :
                   (i < j /\ HasRow(j)) =>
                       RowOf(i).access_time <= RowOf(j).access_time

(***************************************************************************)
(* C28: the source IP recorded for an event is the first entry of the      *)
(* X-Forwarded-For header of its request when the header is present, and   *)
(* the address of the direct connection otherwise.                         *)
(***************************************************************************)
RequestOf(i) ==
    {r \in Requests : /\ r.method = inv[i].method
                      /\ r.pdf_id = inv[i].pdf_id
                      /\ r.client_name = inv[i].client_name
                      /\ GpsData(r) = inv[i].gps_data}

C28_SourceIpPrefersForwardedFor ==
    \A i \in Received :
        HasRow(i) =>
            \A r \in RequestOf(i) :
                RowOf(i).ip_address =
                    IF r.xff = <<>> THEN r.remote_addr ELSE Head(r.xff)

C28_Witness ==
    \E i, j \in Received :
        /\ HasRow(i) /\ HasRow(j)
        /\ \E r \in RequestOf(i) : Len(r.xff) = 2 /\ Head(r.xff) # r.remote_addr
        /\ RowOf(i).ip_address = PublicAddr
        /\ \E r \in RequestOf(j) : r.xff = <<>>
        /\ RowOf(j).ip_address = LocalAddr

(***************************************************************************)
(* C29: the detached chains are run by a worker pool of a fixed size: at   *)
(* every moment the number of detached tasks running at once is bounded by *)
(* a constant, whatever the number of tracking invocations received.  A    *)
(* bound that does not grow with the invocations is below their number     *)
(* once enough are received; PoolSize stands for any such bound.           *)
(***************************************************************************)
Running == {i \in Reqs : task[i].pc \in {"resolve", "insert", "notify"}}

PoolSize == MaxReq - 1

C29_RunningTasksAreBounded ==
    app = "debug_app" => Cardinality(Running) <= PoolSize

(***************************************************************************)
(* C30: when a valid client GPS reading is supplied it is authoritative    *)
(* and the IP path is not taken: no IP-geolocation provider is queried for *)
(* that event.                                                             *)
(***************************************************************************)
GeolocationCalls ==
    {"GET ipapi.co", "GET ipinfo.io", "GET geoplugin.net"}

C30_GpsSkipsIpLookup ==
    \A i \in Received :
        (inv[i].method = "POST" /\ HasValidReading(inv[i].gps_data)) =>
            \A k \in 1..Len(log[i]) : log[i][k] \notin GeolocationCalls

(***************************************************************************)
(* C31.  Accuracy ranking of get_accurate_location for an address it looks *)
(* up: a record with the coordinates of a provider has a strictly smaller  *)
(* accuracy radius than a record with only city/country text, which has a  *)
(* strictly smaller radius than the record of which nothing is known; and  *)
(* the accuracy of the returned record is the one of its own content,      *)
(* whatever the results of the providers that were seen before it.         *)
(***************************************************************************)
HasCoordinates(loc) ==
    loc.latitude \notin {None, "0"} /\ loc.longitude \notin {None, "0"}

HasText(loc) ==
    loc.city \notin {"Unknown", None} \/ loc.country \notin {"Unknown", None}

RankedAccuracy(loc) ==
    IF HasCoordinates(loc) THEN AccuracyCoords
    ELSE IF HasText(loc) THEN AccuracyCity
    ELSE AccuracyDefault

C32_CoordinatesComeInPairs ==
    (probe.fn = "get_accurate_location" /\ probe.done)
        => /\ probe.result.latitude = None <=> probe.result.longitude = None
           /\ probe.result.latitude # None
                  => \E k \in 1..3 :
                         /\ ProbeResults[k].some
                         /\ ProbeResults[k].latitude = probe.result.latitude
                         /\ ProbeResults[k].longitude = probe.result.longitude
                         /\ ProbeResults[k].city = probe.result.city
                         /\ ProbeResults[k].country = probe.result.country

(***************************************************************************)
(* C33.  The coordinates of a stored event originate from the input of its *)
(* own invocation: latitude and longitude of the row are either exactly    *)
(* those of the GPS reading in the body of the invocation or those a       *)
(* provider returned for the lookup of its address; when there is neither  *)
(* a reading nor a provider result they are absent, never the coordinates  *)
(* of a place written into the program.                                    *)
(***************************************************************************)
GpsCoordinates(i) ==
    IF inv[i].gps_data.kind = "object"
           /\ inv[i].gps_data.latitude \notin {Absent, Null}
           /\ inv[i].gps_data.longitude \notin {Absent, Null}
    THEN {<<inv[i].gps_data.latitude, inv[i].gps_data.longitude>>}
    ELSE {}

ProviderCoordinates(i) ==
    IF IsSkippedIP(inv[i].ip_address) THEN {}
    ELSE {<<res.latitude, res.longitude>> :
             res \in UNION {{try_ipapi(rs[1]), try_ipinfo(rs[2]),
                             try_geoplugin(rs[3])} : rs \in PipelineReplies}}
         \ {<<None, None>>}

StoredCoordinates(i) == <<RowOf(i).latitude, RowOf(i).longitude>>

C33_CoordinatesComeFromInput ==
    \A i \in Received :
        HasRow(i) =>
            /\ StoredCoordinates(i) \in
                   GpsCoordinates(i) \cup ProviderCoordinates(i)
                       \cup {<<None, None>>}
            /\ (GpsCoordinates(i) = {} /\ ProviderCoordinates(i) = {})
                   => StoredCoordinates(i) = <<None, None>>

\* One stored event with the reading of its body, one with the coordinates
\* of the provider, one without coordinates (local address, no reading).
C33_Witness ==
    \E i, j \in Received :
        /\ HasRow(i) /\ HasRow(j)
        /\ StoredCoordinates(i) \in GpsCoordinates(i)
        /\ StoredCoordinates(i) \notin ProviderCoordinates(i)
        /\ GpsCoordinates(j) = {} /\ ProviderCoordinates(j) = {}
        /\ StoredCoordinates(j) = <<None, None>>

C33_WitnessProvider ==
    \E i \in Received :
        /\ HasRow(i)
        /\ StoredCoordinates(i) \in ProviderCoordinates(i)
        /\ StoredCoordinates(i) \notin GpsCoordinates(i)

(***************************************************************************)
(* C34.  Under concurrent tracking invocations the final status update of  *)
(* a detached task is applied to the row this same task inserted: the      *)
(* record id the task holds for its UPDATE is the id of the row of its own *)
(* INSERT, and a row never shows statuses other than those the sends of    *)
(* its own task returned.                                                  *)
(***************************************************************************)
HoldsRecordId(i) == task[i].pc \in {"commit", "update", "commit2", "done"}

C34_UpdateHitsOwnRow ==
    /\ \A i \in Received :
           HoldsRecordId(i) =>
               /\ task[i].record_id \in 1..Len(rows)
               /\ rows[task[i].record_id].client_name = inv[i].client_name
    /\ \A k \in 1..Len(rows) :
           rows[k].email_status # "processing" =>
               \E i \in Received :
                   /\ k \in OwnRows(i)
                   /\ task[i].pc \in {"commit2", "done"}
                   /\ rows[k].email_status = task[i].email_status
                   /\ rows[k].whatsapp_status = task[i].whatsapp_status

(***************************************************************************)
(* C35.  A send returns the status sent only if it made exactly one call   *)
(* to the provider of its channel and the provider reported success (the   *)
(* SMTP conversation ended without an exception; the chat API answered 200 *)
(* with a body that says the message was sent); every other outcome of the *)
(* call gives a status other than sent.                                    *)
(***************************************************************************)
ProviderReportedSuccess == probe.outcome \in {"ok", "200 sent"}

ChannelCallOf(fn) ==
    IF fn = "send_email_notification" THEN "SMTP" ELSE "POST ultramsg"

C35_SentMeansProviderSuccess ==
    (probe.fn \in Senders /\ probe.done)
        => /\ probe.status = "sent"
                  => /\ probe.calls = <<ChannelCallOf(probe.fn)>>
                     /\ ProviderReportedSuccess
           /\ (probe.calls # <<>> /\ ~ProviderReportedSuccess)
                  => probe.status # "sent"

(***************************************************************************)
(* C36.  In the analytics output an event carries derived map links if and *)
(* only if the event has both a latitude and a longitude: map_links is     *)
(* empty exactly for the events without coordinates.  get_pdf_analytics    *)
(* tests the truth of the two columns, so an event whose stored latitude   *)
(* or longitude is 0 has both coordinates and no links.                    *)
(***************************************************************************)
HasBothCoordinates(entry) ==
    entry.latitude # None /\ entry.longitude # None

C36_MapLinksIffCoordinates ==
    (probe.fn = "analytics" /\ app = "debug_app")
        => \A k \in 1..Len(probe.accesses) :
               probe.accesses[k].map_links # {}
                   <=> HasBothCoordinates(probe.accesses[k])

(***************************************************************************)
(* C37.  The send operations never write to the store:                     *)
(* send_email_notification and send_whatsapp_notification leave every      *)
(* stored row unchanged and only return a status, and the orchestrating    *)
(* task writes the two statuses through the status update.  Over the step  *)
(* of a task that makes its sends, the table changes in nothing but the    *)
(* email_status and whatsapp_status of the row whose id the task holds,    *)
(* which become the statuses the sends returned.                           *)
(***************************************************************************)
C37_SendsLeaveStoreAlone ==
    [][\A i \in Reqs :
          (task[i].pc = "notify" /\ task'[i].pc # "notify")
              => /\ Len(rows') = Len(rows)
                 /\ \A k \in 1..Len(rows) :
                        rows'[k] =
                            IF rows[k].id = task[i].record_id
                            THEN [rows[k] EXCEPT
                                     !.email_status = task'[i].email_status,
                                     !.whatsapp_status = task'[i].whatsapp_status]
                            ELSE rows[k]
                 /\ Count(log'[i], "INSERT") = 1
                 /\ Count(log'[i], "UPDATE") = 1]_vars

\* Two events are stored; the task of the first has made both sends (one
\* call each) and its row shows their statuses, the row of the second is
\* as its INSERT wrote it.
C37_Witness ==
    /\ Len(rows) = 2
    /\ Finished(1) /\ task[1].record_id = 1 /\ task[2].pc = "notify"
    /\ Count(log[1], "SMTP") = 1 /\ Count(log[1], "POST ultramsg") = 1
    /\ rows[1].email_status = task[1].email_status
    /\ rows[1].whatsapp_status = task[1].whatsapp_status
    /\ rows[1].status = "opened"
    /\ rows[2].email_status = "processing"
    /\ rows[2].whatsapp_status = "processing"

====
